---- MODULE Spec2Model ----
(***************************************************************************)
(* Reconciliation-and-transfer engine of the cloud-tools migrators:        *)
(* the queue/container action planners, the comparison report, the         *)
(* synchronisation passes with their retry loops, and the document and     *)
(* blob batch executors.                                                   *)
(***************************************************************************)
EXTENDS Integers, Sequences, FiniteSets, TLC

(***************************************************************************)
(* Bounds of the model.                                                    *)
(***************************************************************************)
\* number of resource names a snapshot draws from
MaxNames == 3
\* largest numeric value given for the maxRetries option
MaxRetriesOpt == 1

(***************************************************************************)
(* Values.                                                                 *)
(***************************************************************************)
\* JavaScript undefined, where a string-valued property is absent
Undefined == "undefined"
\* an option that was not given (commander leaves it undefined)
Unset == -1

AllNames == <<"a", "b", "c", "d", "e">>
Names == {AllNames[i] : i \in 1..MaxNames}

\* Metadata objects are sets of <<key, value>> pairs with unique keys.
KeyOrder == <<"env", "tag", "ver">>
MetaKeys == {KeyOrder[i] : i \in 1..Len(KeyOrder)}
MetaVals == {"x", "y"}
NoMeta == {}
Keys(m) == {p[1] : p \in m}
Get(m, k) == IF k \in Keys(m) THEN (CHOOSE p \in m : p[1] = k)[2] ELSE Undefined
\* Object.keys(m) as a sequence
RECURSIVE KeysFrom(_, _)
KeysFrom(m, i) ==
    IF i > Len(KeyOrder) THEN <<>>
    ELSE (IF KeyOrder[i] \in Keys(m) THEN <<KeyOrder[i]>> ELSE <<>>) \o KeysFrom(m, i + 1)
ObjectKeys(m) == KeysFrom(m, 1)

\* metadata objects that the snapshots of the model carry
SnapMeta == {NoMeta, {<<"tag", "x">>}, {<<"tag", "y">>}}
\* publicAccess as the SDK lists it: absent for a private container
AccessLevels == {Undefined, "blob"}

Res(n, a, m) == [name |-> n, publicAccess |-> a, metadata |-> m]

\* the name of every entry of a list, in order
RECURSIVE NamesOf(_)
NamesOf(list) == IF list = <<>> THEN <<>> ELSE <<Head(list).name>> \o NamesOf(Tail(list))
Range(s) == {s[i] : i \in 1..Len(s)}
NoDup(s) == \A i, j \in 1..Len(s) : i # j => s[i] # s[j]

(***************************************************************************)
(* new Map(list.map(x => [x.name, x])): keys keep the position of their    *)
(* first occurrence, the value is the one of the last occurrence.          *)
(***************************************************************************)
MapHas(m, n) == \E i \in 1..Len(m) : m[i].name = n
MapGet(m, n) == m[CHOOSE i \in 1..Len(m) : m[i].name = n]
MapSet(m, r) ==
    IF MapHas(m, r.name)
    THEN [i \in 1..Len(m) |-> IF m[i].name = r.name THEN r ELSE m[i]]
    ELSE Append(m, r)
RECURSIVE MapFrom(_, _)
MapFrom(list, acc) ==
    IF list = <<>> THEN acc ELSE MapFrom(Tail(list), MapSet(acc, Head(list)))
NewMap(list) == MapFrom(list, <<>>)

(***************************************************************************)
(* StorageConfig: the constructor copies a fixed list of options.          *)
(***************************************************************************)
DefaultMaxRetries == 3
DefaultBatchSize == 10
DefaultMaxConcurrency == 5

\* parseInt(options.x || process.env.X || dflt) with the environment unset:
\* a number 0 is falsy, so it falls through to the default
OrDefault(v, dflt) == IF v = Unset \/ v = 0 THEN dflt ELSE v

StorageConfig(o) ==
    [ batchSize |-> OrDefault(o.batchSize, DefaultBatchSize),
      maxConcurrency |-> OrDefault(o.maxConcurrency, DefaultMaxConcurrency),
      maxRetries |-> OrDefault(o.maxRetries, DefaultMaxRetries),
      skipExisting |-> o.skipExisting,
      continueOnError |-> o.continueOnError,
      preserveMetadata |-> o.preserveMetadata,
      \* never assigned by the constructor: reads as undefined (falsy)
      preserveDestinationQueues |-> FALSE,
      preserveDestinationContainers |-> FALSE ]

(***************************************************************************)
(* Action planners of the migrators.                                       *)
(***************************************************************************)
\* the same comparison without the test on the number of keys
MetadataDiffers_NoLength(sourceMetadata, destinationMetadata) ==
    LET sourceKeys == ObjectKeys(sourceMetadata)
    IN  \E i \in 1..Len(sourceKeys) :
            Get(sourceMetadata, sourceKeys[i]) # Get(destinationMetadata, sourceKeys[i])
\* the key-by-key comparison shared by both _shouldUpdate functions
MetadataDiffers(sourceMetadata, destinationMetadata) ==
    LET sourceKeys == ObjectKeys(sourceMetadata)
        destinationKeys == ObjectKeys(destinationMetadata)
    IN  IF Len(sourceKeys) # Len(destinationKeys) THEN TRUE
        ELSE \E i \in 1..Len(sourceKeys) :
                Get(sourceMetadata, sourceKeys[i]) # Get(destinationMetadata, sourceKeys[i])

_shouldUpdateQueue(cfg, sourceQueue, destinationQueue) ==
    IF ~cfg.preserveMetadata THEN FALSE
    ELSE MetadataDiffers(sourceQueue.metadata, destinationQueue.metadata)

_shouldUpdateContainer(cfg, sourceContainer, destinationContainer) ==
    IF sourceContainer.publicAccess # destinationContainer.publicAccess THEN TRUE
    ELSE IF cfg.preserveMetadata
         THEN MetadataDiffers(sourceContainer.metadata, destinationContainer.metadata)
         ELSE FALSE

UpdateAction(sourceMap, destinationMap, i) ==
    [ name |-> sourceMap[i].name,
      source |-> sourceMap[i],
      destination |-> MapGet(destinationMap, sourceMap[i].name) ]

\* the this._shouldUpdate... call of the planner of each kind
ShouldUpdate(k, cfg, s, d) ==
    IF k = "queue" THEN _shouldUpdateQueue(cfg, s, d) ELSE _shouldUpdateContainer(cfg, s, d)

\* the first loop of a planner: one pass over the source map
RECURSIVE PlanSource(_, _, _, _, _, _)
PlanSource(k, cfg, sourceMap, destinationMap, i, acc) ==
    IF i > Len(sourceMap) THEN acc
    ELSE LET s == sourceMap[i] IN
         IF ~MapHas(destinationMap, s.name)
         THEN PlanSource(k, cfg, sourceMap, destinationMap, i + 1,
                         [acc EXCEPT !.create = Append(@, s)])
         ELSE IF ShouldUpdate(k, cfg, s, MapGet(destinationMap, s.name))
         THEN PlanSource(k, cfg, sourceMap, destinationMap, i + 1,
                         [acc EXCEPT !.update =
                             Append(@, UpdateAction(sourceMap, destinationMap, i))])
         ELSE PlanSource(k, cfg, sourceMap, destinationMap, i + 1, acc)

\* the second loop without its sourceMap.has test
DestinationOnly_NoSourceTest(sourceMap, destinationMap) == destinationMap

\* the second loop starting at the second entry of the destination map
DestinationOnly_SkipFirst(sourceMap, destinationMap) ==
    SelectSeq(SubSeq(destinationMap, 2, Len(destinationMap)),
              LAMBDA d : ~MapHas(sourceMap, d.name))

\* the second loop of a planner: destination entries the source lacks
DestinationOnly(sourceMap, destinationMap) ==
    SelectSeq(destinationMap, LAMBDA d : ~MapHas(sourceMap, d.name))

NoActions == [create |-> <<>>, update |-> <<>>, delete |-> <<>>]

\* a planner whose first loop pushes every source queue to create
_planQueueActions_CreateAll(cfg, sourceQueueMap, destinationQueueMap) ==
    [ PlanSource("queue", cfg, sourceQueueMap, destinationQueueMap, 1, NoActions)
      EXCEPT !.create = sourceQueueMap,
             !.delete = DestinationOnly(sourceQueueMap, destinationQueueMap) ]

_planQueueActions(cfg, sourceQueueMap, destinationQueueMap) ==
    [ PlanSource("queue", cfg, sourceQueueMap, destinationQueueMap, 1, NoActions)
      EXCEPT !.delete = DestinationOnly(sourceQueueMap, destinationQueueMap) ]

_planContainerActions(cfg, sourceContainerMap, destinationContainerMap) ==
    [ PlanSource("container", cfg, sourceContainerMap, destinationContainerMap, 1,
                 NoActions)
      EXCEPT !.delete = DestinationOnly(sourceContainerMap, destinationContainerMap) ]

(***************************************************************************)
(* StorageComparer: the comparison report and its recommended actions.     *)
(***************************************************************************)
RECURSIVE MissingOrDifferent(_, _, _)
MissingOrDifferent(sourceMetadata, destinationMetadata, keys) ==
    IF keys = <<>> THEN <<>>
    ELSE LET key == Head(keys)
             rest == MissingOrDifferent(sourceMetadata, destinationMetadata, Tail(keys))
         IN  IF key \notin Keys(destinationMetadata)
             THEN <<[type |-> "missing_in_destination", key |-> key]>> \o rest
             ELSE IF Get(sourceMetadata, key) # Get(destinationMetadata, key)
             THEN <<[type |-> "value_difference", key |-> key]>> \o rest
             ELSE rest

\* a second loop that pushes every destination key without the test on the source
ExtraKeys_NoSourceTest(sourceMetadata, keys) ==
    [i \in 1..Len(keys) |-> [type |-> "extra_in_destination", key |-> keys[i]]]
RECURSIVE ExtraKeys(_, _)
ExtraKeys(sourceMetadata, keys) ==
    IF keys = <<>> THEN <<>>
    ELSE (IF Head(keys) \notin Keys(sourceMetadata)
          THEN <<[type |-> "extra_in_destination", key |-> Head(keys)]>>
          ELSE <<>>) \o ExtraKeys(sourceMetadata, Tail(keys))

_compareMetadata(sourceMetadata, destinationMetadata) ==
    MissingOrDifferent(sourceMetadata, destinationMetadata, ObjectKeys(sourceMetadata))
        \o ExtraKeys(sourceMetadata, ObjectKeys(destinationMetadata))

_compareContainerProperties(sourceContainer, destinationContainer) ==
    (IF sourceContainer.publicAccess # destinationContainer.publicAccess
     THEN <<"publicAccess">> ELSE <<>>)
    \o (IF Len(_compareMetadata(sourceContainer.metadata, destinationContainer.metadata)) > 0
        THEN <<"metadata">> ELSE <<>>)

NoComparison ==
    [ missingInDestination |-> <<>>, missingInSource |-> <<>>,
      differences |-> <<>>, create |-> <<>>, update |-> <<>>, delete |-> <<>> ]

\* whether the comparison of a kind lists a difference between two entries
Differs(k, s, d) ==
    IF k = "queue" THEN Len(_compareMetadata(s.metadata, d.metadata)) > 0
    ELSE Len(_compareContainerProperties(s, d)) > 0

\* the first loop of a comparison
RECURSIVE CompareSource(_, _, _, _, _)
CompareSource(k, sourceMap, destinationMap, i, acc) ==
    IF i > Len(sourceMap) THEN acc
    ELSE LET s == sourceMap[i] IN
         IF ~MapHas(destinationMap, s.name)
         THEN CompareSource(k, sourceMap, destinationMap, i + 1,
                  [acc EXCEPT !.missingInDestination = Append(@, s.name),
                              !.create = Append(@, s.name)])
         ELSE IF Differs(k, s, MapGet(destinationMap, s.name))
         THEN CompareSource(k, sourceMap, destinationMap, i + 1,
                  [acc EXCEPT !.differences = Append(@, s.name),
                              !.update = Append(@, s.name)])
         ELSE CompareSource(k, sourceMap, destinationMap, i + 1, acc)

\* the second loop of a comparison without the preserve test
CompareDestination_NoPreserveTest(cfg, sourceMap, destinationMap, acc) ==
    LET only == NamesOf(DestinationOnly(sourceMap, destinationMap))
    IN  [acc EXCEPT !.missingInSource = only, !.delete = only]

\* the second loop of a comparison; both list comparisons read
\* config.preserveDestinationQueues
CompareDestination(cfg, sourceMap, destinationMap, acc) ==
    LET only == NamesOf(DestinationOnly(sourceMap, destinationMap))
    IN  [acc EXCEPT !.missingInSource = only,
                    !.delete = IF ~cfg.preserveDestinationQueues THEN only ELSE <<>>]

_compareQueueLists(cfg, sourceQueues, destinationQueues) ==
    LET sourceMap == NewMap(sourceQueues)
        destinationMap == NewMap(destinationQueues)
    IN  CompareDestination(cfg, sourceMap, destinationMap,
            CompareSource("queue", sourceMap, destinationMap, 1, NoComparison))

_compareContainerLists(cfg, sourceContainers, destinationContainers) ==
    LET sourceMap == NewMap(sourceContainers)
        destinationMap == NewMap(destinationContainers)
    IN  CompareDestination(cfg, sourceMap, destinationMap,
            CompareSource("container", sourceMap, destinationMap, 1, NoComparison))

(***************************************************************************)
(* State.                                                                  *)
(***************************************************************************)
VARIABLES
    entry,        \* "cli": config built by StorageConfig from the command's options;
                  \* "direct": the migrator is constructed on a config object as given
    options,      \* the options handed to the entry point
    config,       \* this.config of the migrator / comparer
    kind,         \* "queue" or "container"
    source,       \* the source account: a set of resources with unique names
    store,        \* the destination account, mutated by the executors
    actions,      \* the plan of the migrator
    comparison,   \* the result of the comparer
    compared,     \* whether the comparer has run
    pc,           \* position of the run
    results,      \* the results object of the run
    idx,          \* position of the executor's for loop in the list of its pass
    retries,      \* the retries variable of the item in hand
    attempts,     \* calls of the item's first operation made so far
    delays,       \* the waits made between the attempts of the item in hand, in ms
    codes,        \* the error codes the attempts of the item in hand have met
    last,         \* how the item finished most recently went
    calls,        \* the operations issued against the destination, by name
    batches,      \* the batches of items of a container migration
    batch,        \* the batch in hand
    tasks,        \* per item of a container migration: its state and retry variables
    stats,        \* this.stats of DataMigrator / results of BlobMigrator.migrateContainer
    containerStats, \* containerStats of DataMigrator.migrateContainer
    batchStats,   \* batchStats of DataMigrator._migrateBatch
    written,      \* the items another writer has put into the destination meanwhile
    cursor,       \* continuationToken of DataMigrator.migrateContainer
    reads,        \* the reads of the source made so far: token given, page, token returned
    listings,     \* the enumerations a command's run has asked of the two accounts
    previous,     \* the items an earlier run of the same migration has migrated
    now           \* the wall clock, in seconds

\* what no step of the program changes
inputVars == <<entry, options, config, kind, source, written>>
itemVars == <<idx, retries, attempts, delays, codes>>
execVars == <<results, idx, retries, attempts, delays, codes, last, calls>>
pageVars == <<cursor, reads>>
\* what a reconciliation or a container migration under way leaves alone
runVars == <<listings, previous, now>>
batchVars == <<batches, batch, tasks, stats, containerStats, batchStats, cursor, reads>>
vars == <<entry, options, config, kind, source, store, actions, comparison, compared, pc,
          results, idx, retries, attempts, delays, codes, last, calls,
          batches, batch, tasks, stats, containerStats, batchStats, written,
          cursor, reads, listings, previous, now>>

NoResults ==
    [ totalSource |-> 0, totalDestination |-> 0, created |-> 0, updated |-> 0,
      deleted |-> 0, skipped |-> 0, errors |-> <<>>, queueActions |-> <<>> ]
\* no continuation token: null or undefined
NoCursor == 0
NoStats == [total |-> 0, migrated |-> 0, failed |-> 0, skipped |-> 0, errors |-> <<>>]
NoCounts == [total |-> 0, migrated |-> 0, failed |-> 0, skipped |-> 0]
NoItem ==
    [ pass |-> "none", name |-> "", attempts |-> 0, delays |-> <<>>, codes |-> {},
      success |-> FALSE ]
\* the container migration before it has started
BatchIdle ==
    /\ batches = <<>>
    /\ batch = 1
    /\ tasks = <<>>
    /\ stats = NoStats
    /\ containerStats = NoCounts
    /\ batchStats = NoCounts
    /\ written = {}
    /\ cursor = NoCursor
    /\ reads = <<>>
    /\ listings = <<>>
    /\ previous = {}
    /\ now = 0
\* the planner, the comparer and the action executors before they have started
SyncIdle ==
    /\ actions = NoActions
    /\ comparison = NoComparison
    /\ compared = FALSE
    /\ results = NoResults
    /\ idx = 1
    /\ retries = 0
    /\ attempts = 0
    /\ delays = <<>>
    /\ codes = {}
    /\ last = NoItem
    /\ calls = {}
\* the executor between two runs
ExecIdle ==
    /\ results = NoResults
    /\ idx = 1
    /\ retries = 0
    /\ attempts = 0
    /\ delays = <<>>
    /\ codes = {}
    /\ last = NoItem
    /\ calls = {}
    /\ BatchIdle


\* a listing enumerates an account in name order
RECURSIVE ListFrom(_, _)
ListFrom(account, i) ==
    IF i > Len(AllNames) THEN <<>>
    ELSE (IF \E r \in account : r.name = AllNames[i]
          THEN <<CHOOSE r \in account : r.name = AllNames[i]>>
          ELSE <<>>) \o ListFrom(account, i + 1)
Listing(account) == ListFrom(account, 1)
NameSet(account) == {r.name : r \in account}

\* listSourceQueues / listDestinationQueues: name and metadata of every queue
listQueues(account) == Listing(account)
\* listContainers: the source listing carries no metadata property
listContainers(account) ==
    LET l == Listing(account)
    IN  [i \in 1..Len(l) |-> [l[i] EXCEPT !.metadata = NoMeta]]
\* _listDestinationContainers: the listing plus getProperties().metadata
_listDestinationContainers(account) == Listing(account)

PlanOf(k, cfg, src, dst) ==
    IF k = "queue"
    THEN _planQueueActions(cfg, NewMap(listQueues(src)), NewMap(listQueues(dst)))
    ELSE _planContainerActions(cfg, NewMap(listContainers(src)),
                               NewMap(_listDestinationContainers(dst)))

ComparisonOf(k, cfg, src, dst) ==
    IF k = "queue"
    THEN _compareQueueLists(cfg, listQueues(src), listQueues(dst))
    ELSE _compareContainerLists(cfg, listContainers(src), _listDestinationContainers(dst))

(***************************************************************************)
(* Inputs.                                                                 *)
(***************************************************************************)
Variant(p, a, m) == [present |-> p, publicAccess |-> a, metadata |-> m]
AbsentV == Variant(FALSE, Undefined, NoMeta)
Variants(accesses, metas) == {Variant(TRUE, a, m) : a \in accesses, m \in metas}
Accounts(variants) ==
    { {Res(n, f[n].publicAccess, f[n].metadata) : n \in {x \in Names : f[x].present}} :
        f \in [Names -> variants \cup {AbsentV}] }

QueueAccounts == Accounts(Variants({Undefined}, SnapMeta))
ContainerAccounts == Accounts(Variants(AccessLevels, {NoMeta, {<<"tag", "x">>}}))
\* the metadata of a source container is never read
ContainerSources == Accounts(Variants(AccessLevels, {NoMeta}))

\* options of the commands; the flags commander leaves undefined read as FALSE
OptionSets ==
    [ batchSize : {Unset},
      maxConcurrency : {Unset},
      maxRetries : {Unset} \cup 0..MaxRetriesOpt,
      skipExisting : {FALSE},
      continueOnError : BOOLEAN,
      preserveMetadata : BOOLEAN,
      preserveDestinationQueues : BOOLEAN,
      preserveDestinationContainers : {FALSE} ]

\* a config object handed to the migrator's constructor as it is
DirectConfigs ==
    [ batchSize : {DefaultBatchSize},
      maxConcurrency : {DefaultMaxConcurrency},
      maxRetries : 0..MaxRetriesOpt,
      skipExisting : {FALSE},
      continueOnError : BOOLEAN,
      preserveMetadata : BOOLEAN,
      preserveDestinationQueues : BOOLEAN,
      preserveDestinationContainers : BOOLEAN ]

ConfigFor(e, o) == IF e = "cli" THEN StorageConfig(o) ELSE o

\* the preserve flag the run reads for its kind of resource
PreserveFlag(k, cfg) ==
    IF k = "queue" THEN cfg.preserveDestinationQueues
    ELSE cfg.preserveDestinationContainers

(***************************************************************************)
(* The planners on their own: plan and comparison of two snapshots.        *)
(***************************************************************************)
InitPlan ==
    /\ entry = "direct"
    /\ options \in {o \in DirectConfigs : o.maxRetries = 0 /\ o.continueOnError
                        /\ o.preserveDestinationContainers = o.preserveDestinationQueues}
    /\ config = ConfigFor(entry, options)
    /\ kind \in {"queue", "container"}
    /\ source \in (IF kind = "queue" THEN QueueAccounts ELSE ContainerSources)
    /\ store \in (IF kind = "queue" THEN QueueAccounts ELSE ContainerAccounts)
    /\ actions = NoActions
    /\ comparison = NoComparison
    /\ compared = FALSE
    /\ pc = "start"
    /\ ExecIdle

\* _planQueueActions / _planContainerActions on the two listings
PlanActions ==
    /\ pc = "start"
    /\ actions' = PlanOf(kind, config, source, store)
    /\ pc' = "planned"
    /\ UNCHANGED <<inputVars, runVars, batchVars, store, comparison, compared, execVars>>

\* compareQueues / compareBlobContainers on the two listings
Compare ==
    /\ ~compared
    /\ pc \in {"start", "planned"}
    /\ comparison' = ComparisonOf(kind, config, source, store)
    /\ compared' = TRUE
    /\ UNCHANGED <<inputVars, runVars, batchVars, store, actions, pc, execVars>>

NextPlan == PlanActions \/ Compare

SpecPlan == InitPlan /\ [][NextPlan]_vars

(***************************************************************************)
(* _compareMetadata on its own: the metadata of one queue on both sides.   *)
(***************************************************************************)
\* every metadata object over the keys and values of the model
MetadataObjects ==
    {m \in SUBSET (MetaKeys \X MetaVals) : \A p, q \in m : p[1] = q[1] => p = q}

InitMetadata ==
    /\ entry = "direct"
    /\ options \in {o \in DirectConfigs : o.maxRetries = 0 /\ o.continueOnError
                        /\ o.preserveMetadata /\ ~o.preserveDestinationQueues
                        /\ ~o.preserveDestinationContainers}
    /\ config = ConfigFor(entry, options)
    /\ kind = "queue"
    /\ \E a \in MetadataObjects : source = {Res("a", Undefined, a)}
    /\ \E b \in MetadataObjects : store = {Res("a", Undefined, b)}
    /\ actions = NoActions
    /\ comparison = <<>>
    /\ compared = FALSE
    /\ pc = "start"
    /\ ExecIdle

\* _compareMetadata(sourceQueue.metadata, destinationQueue.metadata)
CompareMetadata ==
    /\ ~compared
    /\ comparison' = _compareMetadata((CHOOSE s \in source : TRUE).metadata,
                                      (CHOOSE d \in store : TRUE).metadata)
    /\ compared' = TRUE
    /\ UNCHANGED <<inputVars, runVars, batchVars, store, actions, pc, execVars>>

\* the planner and _compareMetadata are applied to the same pair of queues
NextMetadata == CompareMetadata \/ PlanActions

SpecMetadata == InitMetadata /\ [][NextMetadata]_vars

(***************************************************************************)
(* The synchronisation run: synchronizeQueues / synchronizeContainers.     *)
(***************************************************************************)
\* error codes a destination call may fail with: 409 is terminal, 429 retryable
ErrorCodes == {409, 429}

Has(st, n) == \E r \in st : r.name = n
Existing(st, n) == CHOOSE r \in st : r.name = n
Others(st, n) == {r \in st : r.name # n}

\* the access level a container is created with
CreatedAccess_Private(a) == Undefined
CreatedAccess(a) == IF a # Undefined /\ a # "none" THEN a ELSE Undefined

\* the operations one attempt of an action issues against the destination
CallsFor(k, cfg, pass, act) ==
    CASE pass = "create" ->
           <<"create">> \o (IF cfg.preserveMetadata /\ act.metadata # NoMeta
                            THEN <<"setMetadata">> ELSE <<>>)
      [] pass = "update" ->
           (IF k = "container" /\ act.source.publicAccess # act.destination.publicAccess
            THEN <<"setAccessPolicy">> ELSE <<>>)
           \o (IF cfg.preserveMetadata THEN <<"setMetadata">> ELSE <<>>)
      [] OTHER -> <<"delete">>

\* the destination after one operation that succeeded
ApplyCall(st, pass, act, op) ==
    LET n == act.name
        src == IF pass = "update" THEN act.source ELSE act
    IN  CASE op = "create" ->
               IF Has(st, n) THEN st
               ELSE st \cup {Res(n, CreatedAccess(src.publicAccess), NoMeta)}
          [] op = "setMetadata" ->
               IF Has(st, n)
               THEN Others(st, n) \cup {[Existing(st, n) EXCEPT !.metadata = src.metadata]}
               ELSE st
          [] op = "setAccessPolicy" ->
               IF Has(st, n)
               THEN Others(st, n)
                      \cup {[Existing(st, n) EXCEPT !.publicAccess = src.publicAccess]}
               ELSE st
          [] OTHER -> Others(st, n)

\* the destination after the first n operations of an attempt
RECURSIVE ApplyCalls(_, _, _, _, _)
ApplyCalls(st, pass, act, ops, n) ==
    IF n = 0 THEN st
    ELSE ApplyCall(ApplyCalls(st, pass, act, ops, n - 1), pass, act, ops[n])

\* the pass that follows `pass` in the run, "done" when none does
AfterPass_UpdateFirst(cfg, k, acts, pass) ==
    IF pass = "start" /\ Len(acts.update) > 0 THEN "update"
    ELSE IF pass \in {"start", "update"} /\ Len(acts.create) > 0 THEN "create"
    ELSE IF pass # "delete" /\ Len(acts.delete) > 0 /\ ~PreserveFlag(k, cfg) THEN "delete"
    ELSE "done"
AfterPass(cfg, k, acts, pass) ==
    IF pass = "start" /\ Len(acts.create) > 0 THEN "create"
    ELSE IF pass \in {"start", "create"} /\ Len(acts.update) > 0 THEN "update"
    ELSE IF pass # "delete" /\ Len(acts.delete) > 0 /\ ~PreserveFlag(k, cfg) THEN "delete"
    ELSE "done"

\* the deletions the run skips when it reaches the end without a delete pass
SkippedAfter(cfg, k, acts, pass) ==
    IF pass # "delete" /\ AfterPass(cfg, k, acts, pass) = "done"
       /\ Len(acts.delete) > 0 /\ PreserveFlag(k, cfg)
    THEN Len(acts.delete) ELSE 0

Outcome(pass, act, ok) == [action |-> pass, name |-> act.name, success |-> ok]
ErrorEntry(pass, act) == [action |-> pass, name |-> act.name]
ItemDone(pass, act, n, d, c, ok) ==
    [pass |-> pass, name |-> act.name, attempts |-> n, delays |-> d, codes |-> c,
     success |-> ok]

\* the for loop moves to the next action, or the run to the next pass
Finish(pass, res) ==
    LET more == idx < Len(actions[pass])
    IN  /\ pc' = IF more THEN pass ELSE AfterPass(config, kind, actions, pass)
        /\ idx' = IF more THEN idx + 1 ELSE 1
        /\ results' = [res EXCEPT !.skipped =
                          @ + IF more THEN 0 ELSE SkippedAfter(config, kind, actions, pass)]
        /\ retries' = 0
        /\ attempts' = 0
        /\ delays' = <<>>
        /\ codes' = {}

Counted(res, pass) ==
    CASE pass = "create" -> [res EXCEPT !.created = @ + 1]
      [] pass = "update" -> [res EXCEPT !.updated = @ + 1]
      [] OTHER -> [res EXCEPT !.deleted = @ + 1]

\* the wait before the next attempt, in ms, after `r` failures
RetryWait(r) == 1000 * r

\* the try block ran to its end
Succeed(pass, act) ==
    /\ last' = ItemDone(pass, act, attempts + 1, delays, codes, TRUE)
    /\ Finish(pass, [Counted(results, pass) EXCEPT
                        !.queueActions = Append(@, Outcome(pass, act, TRUE))])

\* the catch block, entered with an error of the given code
Fail(pass, act, code) ==
    LET r == retries + 1
        res == [results EXCEPT !.errors = Append(@, ErrorEntry(pass, act)),
                               !.queueActions = Append(@, Outcome(pass, act, FALSE))]
    IN  IF r > config.maxRetries
        THEN /\ last' = ItemDone(pass, act, attempts + 1, delays, codes \cup {code}, FALSE)
             /\ IF ~config.continueOnError
                THEN /\ pc' = "thrown"
                     /\ results' = res
                     /\ retries' = r
                     /\ attempts' = attempts + 1
                     /\ codes' = codes \cup {code}
                     /\ UNCHANGED <<idx, delays>>
                ELSE Finish(pass, res)
        ELSE /\ retries' = r
             /\ attempts' = attempts + 1
             /\ delays' = Append(delays, RetryWait(r))
             /\ codes' = codes \cup {code}
             /\ UNCHANGED <<pc, idx, results, last>>

\* one turn of the while loop of an executor on the action in hand
Attempt(pass) ==
    /\ pc = pass
    /\ LET act == actions[pass][idx]
           ops == CallsFor(kind, config, pass, act)
       IN  \E failAt \in 0..Len(ops), code \in ErrorCodes :
             LET made == IF failAt = 0 THEN Len(ops) ELSE failAt - 1
                 issued == IF failAt = 0 THEN Len(ops) ELSE failAt
             IN  /\ store' = ApplyCalls(store, pass, act, ops, made)
                 /\ calls' = calls \cup {<<ops[j], act.name>> : j \in 1..issued}
                 /\ IF failAt = 0 THEN Succeed(pass, act) ELSE Fail(pass, act, code)
    /\ UNCHANGED <<inputVars, runVars, batchVars, actions, comparison, compared>>

\* synchronizeQueues up to its first pass: the two listings and the plan
SyncStart ==
    /\ pc = "start"
    /\ kind \in {"queue", "container"}
    /\ LET plan == PlanOf(kind, config, source, store)
       IN  /\ actions' = plan
           /\ pc' = AfterPass(config, kind, plan, "start")
           /\ results' = [results EXCEPT
                            !.totalSource = Cardinality(source),
                            !.totalDestination = Cardinality(store),
                            !.skipped = @ + SkippedAfter(config, kind, plan, "start")]
    /\ UNCHANGED <<inputVars, runVars, batchVars, store, comparison, compared, itemVars, last, calls>>

\* a listing fails: the run throws before it has planned anything
ListFails ==
    /\ pc = "start"
    /\ kind \in {"queue", "container"}
    /\ pc' = "thrown"
    /\ UNCHANGED <<inputVars, runVars, batchVars, store, actions, comparison, compared, execVars>>

\* StorageMigrator.migrate with queues included: what the counters of its report
\* receive from the results of synchronizeQueues, once it has returned
QueueReport ==
    /\ pc = "done"
    /\ kind = "queue"
    /\ stats' = [ total |-> 0 + results.totalSource,
                  migrated |-> 0 + results.created + results.updated,
                  skipped |-> 0 + results.skipped,
                  failed |-> 0 + Len(results.errors),
                  errors |-> <<>> \o results.errors ]
    /\ pc' = "reported"
    /\ UNCHANGED <<inputVars, runVars, pageVars, store, actions, comparison, compared,
                   execVars, batches, batch, tasks, containerStats, batchStats>>

_executeCreateActions == Attempt("create")
_executeUpdateActions == Attempt("update")
_executeDeleteActions == Attempt("delete")

MaxSyncNames == 2
SyncNames == {AllNames[i] : i \in 1..MaxSyncNames}
AccountsOn(names, variants) ==
    { {Res(n, f[n].publicAccess, f[n].metadata) : n \in {x \in names : f[x].present}} :
        f \in [names -> variants \cup {AbsentV}] }

\* what the sync-queues command can hand to StorageConfig, and the config objects
\* a caller can construct the migrator on
SyncEntries ==
    ({"cli"} \X {o \in OptionSets : o.maxRetries = 0 /\ o.preserveMetadata
                                     /\ o.preserveDestinationQueues})
    \cup ({"direct"} \X {o \in DirectConfigs :
                           o.preserveDestinationContainers = o.preserveDestinationQueues})

InitSync ==
    /\ \E e \in SyncEntries :
         /\ entry = e[1]
         /\ options = e[2]
         /\ config = ConfigFor(e[1], e[2])
         \* the command line reaches synchronizeQueues only
         /\ kind \in (IF e[1] = "cli" THEN {"queue"} ELSE {"queue", "container"})
    /\ source \in (IF kind = "queue"
                   THEN AccountsOn(SyncNames, Variants({Undefined}, {NoMeta, {<<"tag", "x">>}}))
                   ELSE AccountsOn(SyncNames, Variants(AccessLevels, {NoMeta})))
    /\ store \in (IF kind = "queue"
                  THEN AccountsOn(SyncNames, Variants({Undefined}, {{<<"tag", "x">>}, {<<"tag", "y">>}}))
                  ELSE AccountsOn(SyncNames, {Variant(TRUE, Undefined, NoMeta),
                                              Variant(TRUE, "blob", NoMeta),
                                              Variant(TRUE, Undefined, {<<"tag", "x">>})}))
    /\ actions = NoActions
    /\ comparison = NoComparison
    /\ compared = FALSE
    /\ pc = "start"
    /\ ExecIdle

NextSync ==
    \/ SyncStart
    \/ ListFails
    \/ _executeCreateActions
    \/ _executeUpdateActions
    \/ _executeDeleteActions
    \/ QueueReport

SpecSync == InitSync /\ [][NextSync]_vars

(***************************************************************************)
(* Container migrations: DataMigrator.migrateContainer (documents, one at  *)
(* a time) and BlobMigrator.migrateContainer (blobs, a batch at a time).   *)
(***************************************************************************)
DocumentBatchSize == 100

\* DataMigrator.constructor: options.x || default
DataMigrator(o) ==
    [o EXCEPT !.batchSize = OrDefault(@, DocumentBatchSize),
              !.maxRetries = OrDefault(@, DefaultMaxRetries)]

\* error codes of the destination: not found, rate limiting, server error
ItemErrorCodes == {404, 429, 500}
\* items.create also answers 409 when an item of that id exists
CreateErrorCodes == ItemErrorCodes \cup {409}

_isRetryableError_Any(code) == TRUE
_isRetryableError_Conflict(code) == code = 409 \/ code = 429 \/ (code >= 500 /\ code < 600)
\* a boundary of five hundred and up, six hundred included
_isRetryableError_Upto600(code) == code = 429 \/ (code >= 500 /\ code <= 600)
_isRetryableError(code) == code = 429 \/ (code >= 500 /\ code < 600)

Min(a, b) == IF a < b THEN a ELSE b
\* a position given to slice: a negative one counts from the end, and both ends are
\* clamped to the array
SliceIndex(items, k) ==
    IF k < 0 THEN (IF Len(items) + k < 0 THEN 0 ELSE Len(items) + k) ELSE Min(k, Len(items))
\* items.slice(i, j), on 0-based positions
Slice(items, i, j) == SubSeq(items, SliceIndex(items, i) + 1, SliceIndex(items, j))

RECURSIVE BatchesFrom(_, _, _)
BatchesFrom(items, batchSize, i) ==
    IF i >= Len(items) THEN <<>>
    ELSE <<Slice(items, i, i + batchSize)>> \o BatchesFrom(items, batchSize, i + batchSize)
_createBatches(items, batchSize) == BatchesFrom(items, batchSize, 0)

RECURSIVE Pow2(_)
Pow2(n) == IF n = 0 THEN 1 ELSE 2 * Pow2(n - 1)
\* the wait of _createDocumentWithRetry before it tries again, in ms
BackoffDelay_Linear(retryCount) == (retryCount + 1) * 1000
BackoffDelay(retryCount) == Pow2(retryCount) * 1000

NewTask ==
    [ state |-> "pending", retries |-> 0, attempts |-> 0, delays |-> <<>>, codes |-> {},
      \* what the existence probes of the item were answered with
      probes |-> {} ]
Settled(t) == t.state \in {"migrated", "skipped", "failed", "rejected"}
\* a task that has finished keeps its outcome only
Ended(st) == [NewTask EXCEPT !.state = st]
Tried(t, code) == [t EXCEPT !.attempts = @ + 1, !.codes = @ \cup {code}]

DocumentError_Unnamed(name) == [scope |-> "item", name |-> ""]
DocumentError(name) == [scope |-> "item", name |-> name]
ContainerError(name) == [scope |-> "container", name |-> name]

\* the sums without the skipped counter
AddCounts_NoSkipped(a, b) ==
    [a EXCEPT !.total = @ + b.total, !.migrated = @ + b.migrated,
              !.failed = @ + b.failed]

AddCounts(a, b) ==
    [a EXCEPT !.total = @ + b.total, !.migrated = @ + b.migrated,
              !.failed = @ + b.failed, !.skipped = @ + b.skipped]

\* the for loop of _migrateBatch moves on with batchStats bs; at the end of the batch
\* migrateContainer adds it to containerStats, and after the last batch to this.stats
DocNext(bs, errs) ==
    LET docs == batches[batch]
        cs == AddCounts(containerStats, [bs EXCEPT !.total = Len(docs)])
    IN  /\ batch' = batch
        /\ IF idx < Len(docs)
           THEN /\ idx' = idx + 1
                /\ batchStats' = bs
                /\ stats' = [stats EXCEPT !.errors = errs]
                /\ UNCHANGED <<containerStats, pc>>
           ELSE /\ idx' = 1
                /\ batchStats' = NoCounts
                /\ containerStats' = cs
                \* while (continuationToken)
                /\ IF cursor # NoCursor
                   THEN /\ stats' = [stats EXCEPT !.errors = errs]
                        /\ pc' = "reading"
                   ELSE /\ stats' = [AddCounts(stats, cs) EXCEPT !.errors = errs]
                        /\ pc' = "done"

\* the catch block of _migrateBatch, and with continueOnError off that of
\* migrateContainer
DocFailed(doc, t, code) ==
    LET bs == [batchStats EXCEPT !.failed = @ + 1]
        errs == Append(stats.errors, DocumentError(doc.name))
    IN  /\ last' = ItemDone("document", doc, t.attempts, t.delays, t.codes, FALSE)
        /\ IF ~config.continueOnError
           THEN /\ tasks' = [tasks EXCEPT ![doc.name] = Ended("rejected")]
                /\ batchStats' = bs
                /\ stats' = [stats EXCEPT !.errors = Append(errs, ContainerError(doc.name))]
                /\ pc' = "thrown"
                /\ UNCHANGED <<idx, batch, containerStats>>
           ELSE /\ tasks' = [tasks EXCEPT ![doc.name] = Ended("failed")]
                /\ DocNext(bs, errs)

\* what the container migrations leave alone
syncVars == <<actions, comparison, compared, results, retries, attempts, delays, codes>>

Doc == batches[batch][idx]

\* _migrateBatch: the read of the target item when skipExisting is on
DocProbe ==
    /\ pc = "running"
    /\ kind = "document"
    /\ config.skipExisting
    /\ tasks[Doc.name].state = "pending"
    /\ \E code \in {0} \cup ItemErrorCodes :
         /\ code = 0 => Has(store, Doc.name)
         /\ code = 404 => ~Has(store, Doc.name)
         /\ IF code = 0
            THEN /\ tasks' = [tasks EXCEPT ![Doc.name] = Ended("skipped")]
                 /\ last' = ItemDone("document", Doc, 0, <<>>, {}, TRUE)
                 /\ DocNext([batchStats EXCEPT !.skipped = @ + 1], stats.errors)
            ELSE IF code = 404
            THEN /\ tasks' = [tasks EXCEPT ![Doc.name].state = "running",
                                           ![Doc.name].probes = @ \cup {code}]
                 /\ UNCHANGED <<idx, batch, stats, containerStats, batchStats, pc, last>>
            \* any other error goes to the catch block: no create is attempted
            ELSE DocFailed(Doc, [tasks[Doc.name] EXCEPT !.codes = {code}], code)
    /\ calls' = calls \cup {<<"read", Doc.name>>}
    /\ UNCHANGED <<inputVars, runVars, syncVars, pageVars, store, batches>>

\* one call of _createDocumentWithRetry on the document in hand
_createDocumentWithRetry ==
    /\ pc = "running"
    /\ kind = "document"
    /\ LET t == tasks[Doc.name]
       IN  /\ t.state = "running" \/ (t.state = "pending" /\ ~config.skipExisting)
           /\ \E code \in {0} \cup CreateErrorCodes :
                \* items.create succeeds only where no item of that id exists
                /\ code = 0 => ~Has(store, Doc.name)
                /\ code = 409 => Has(store, Doc.name)
                /\ IF code = 0
                   THEN /\ store' = store \cup {Doc}
                        /\ tasks' = [tasks EXCEPT ![Doc.name] = Ended("migrated")]
                        /\ last' = ItemDone("document", Doc, t.attempts + 1, t.delays,
                                            t.codes, TRUE)
                        /\ DocNext([batchStats EXCEPT !.migrated = @ + 1], stats.errors)
                   ELSE IF t.retries < config.maxRetries /\ _isRetryableError(code)
                   THEN /\ tasks' = [tasks EXCEPT ![Doc.name] =
                                       [Tried(t, code) EXCEPT
                                          !.state = "running",
                                          !.delays = Append(@, BackoffDelay(t.retries)),
                                          !.retries = @ + 1]]
                        /\ UNCHANGED <<store, idx, batch, stats, containerStats,
                                       batchStats, pc, last>>
                   ELSE /\ store' = store
                        /\ DocFailed(Doc, Tried(t, code), code)
    /\ calls' = calls \cup {<<"create", Doc.name>>}
    /\ UNCHANGED <<inputVars, runVars, syncVars, pageVars, batches>>

\* bound on the pages without documents that the source returns in a run
MaxEmptyPages == 1
EmptyReads == {i \in 1..Len(reads) : reads[i].page = <<>>}
\* the position in the listing that a token stands for; no token: the beginning
PositionOf_Restart(token) == 0
PositionOf(token) == IF token = NoCursor THEN 0 ELSE token - 1
TokenAt(position) == position + 1

\* one turn of the do/while loop of migrateContainer up to its page: the read of
\* the next page with the token in hand; the source answers with at most
\* maxItemCount documents from there and the token to go on with, or none at the end
ReadPage ==
    /\ pc = "reading"
    /\ kind = "document"
    /\ LET items == Listing(source)
           from == PositionOf(cursor)
       IN  \E n \in 0..Min(config.batchSize, Len(items) - from), more \in BOOLEAN :
             LET page == SubSeq(items, from + 1, from + n)
                 next == IF more THEN TokenAt(from + n) ELSE NoCursor
             IN  /\ n = 0 => Cardinality(EmptyReads) < MaxEmptyPages
                 \* the source ends the listing only when it has returned all of it,
                 \* and does not go on for ever
                 /\ ~more => from + n = Len(items)
                 /\ (more /\ from + n = Len(items)) =>
                        Cardinality(EmptyReads) + (IF n = 0 THEN 1 ELSE 0) < MaxEmptyPages
                 /\ reads' = Append(reads, [given |-> cursor, page |-> page, returned |-> next])
                 /\ cursor' = next
                 /\ IF n > 0
                    THEN /\ batches' = Append(batches, page)
                         /\ batch' = Len(batches) + 1
                         /\ pc' = "running"
                         /\ stats' = stats
                    ELSE /\ UNCHANGED <<batches, batch>>
                         /\ IF next # NoCursor
                            THEN /\ pc' = "reading"
                                 /\ stats' = stats
                            ELSE /\ pc' = "done"
                                 /\ stats' = AddCounts(stats, containerStats)
    /\ UNCHANGED <<inputVars, runVars, syncVars, store, idx, tasks, containerStats, batchStats,
                   last, calls>>

\* the read of a page fails: fetchNext throws into the catch block of migrateContainer,
\* past the update of the global statistics; the error is recorded, and thrown on
\* with continueOnError off
ReadFails ==
    /\ pc = "reading"
    /\ kind = "document"
    /\ stats' = [stats EXCEPT !.errors = Append(@, ContainerError(""))]
    /\ pc' = IF config.continueOnError THEN "aborted" ELSE "thrown"
    /\ UNCHANGED <<inputVars, runVars, syncVars, pageVars, store, idx, tasks, batches, batch,
                   containerStats, batchStats, last, calls>>

\* another writer creates the document in hand in the target container after the
\* read of _migrateBatch has answered 404 and before items.create is called
ExternalWrite ==
    /\ pc = "running"
    /\ kind = "document"
    /\ config.skipExisting
    /\ tasks[Doc.name].state = "running"
    /\ tasks[Doc.name].attempts = 0
    /\ ~Has(store, Doc.name)
    /\ store' = store \cup {Doc}
    /\ written' = written \cup {Doc.name}
    /\ UNCHANGED <<entry, options, config, kind, source, runVars, syncVars, batchVars, idx, pc,
                   last, calls>>

BatchNames(b) == IF b \in 1..Len(batches) THEN Range(NamesOf(batches[b])) ELSE {}

\* Promise.allSettled of the batch in hand resolves once every blob of it has ended:
\* the for loop maps the next batch to running _migrateBlob calls, or the run ends
AfterBlob_Eager(ts) ==
    IF batch < Len(batches)
    THEN /\ batch' = batch + 1
         /\ tasks' = [m \in DOMAIN ts |->
                        IF m \in BatchNames(batch + 1)
                        THEN [ts[m] EXCEPT !.state = "running"] ELSE ts[m]]
         /\ pc' = "running"
    ELSE /\ batch' = batch
         /\ tasks' = ts
         /\ pc' = IF \A m \in DOMAIN ts : Settled(ts[m]) THEN "done" ELSE "running"
AfterBlob(ts) ==
    IF \A m \in BatchNames(batch) : Settled(ts[m])
    THEN IF batch < Len(batches)
         THEN /\ batch' = batch + 1
              /\ tasks' = [m \in DOMAIN ts |->
                             IF m \in BatchNames(batch + 1)
                             THEN [ts[m] EXCEPT !.state = "running"] ELSE ts[m]]
              /\ pc' = "running"
         ELSE /\ batch' = batch
              /\ tasks' = ts
              /\ pc' = "done"
    ELSE /\ batch' = batch
         /\ tasks' = ts
         /\ pc' = "running"

\* a counter that every finishing blob sets from its own count of one
Increment_Own(results_, counter) == [results_ EXCEPT ![counter] = 1]
\* results.migratedBlobs++ and its like: read and written with no await in between
Increment(results_, counter) == [results_ EXCEPT ![counter] = @ + 1]

\* the operations of one turn of _migrateBlob after the probe
BlobCalls(cfg, blob) ==
    <<"startCopyFromURL">> \o (IF cfg.preserveMetadata /\ blob.metadata # NoMeta
                               THEN <<"setMetadata">> ELSE <<>>)

\* the turn ended in the catch block with an error of the given code
BlobFailed(blob, t, code) ==
    LET r == t.retries + 1
        n == blob.name
    IN  IF r > config.maxRetries
        THEN /\ stats' = [Increment(stats, "failed") EXCEPT
                            !.errors = Append(@, DocumentError(n))]
             /\ last' = ItemDone("blob", blob, t.attempts + 1, t.delays,
                                 t.codes \cup {code}, FALSE)
             /\ AfterBlob([tasks EXCEPT ![n] =
                             Ended(IF config.continueOnError THEN "failed" ELSE "rejected")])
        ELSE /\ tasks' = [tasks EXCEPT ![n] =
                            [Tried(t, code) EXCEPT !.retries = r,
                                                   !.delays = Append(@, RetryWait(r))]]
             /\ UNCHANGED <<stats, last, batch, pc>>

\* what getProperties answers the probe with: the blob, 404, or another error
ProbeCode(probe) == IF probe = "exists" THEN 0 ELSE IF probe = "absent" THEN 404 ELSE 500
Probed(t, probe) ==
    IF probe = "none" THEN t ELSE [t EXCEPT !.probes = @ \cup {ProbeCode(probe)}]

\* one turn of the while loop of _migrateBlob for blob n of the batch in hand
_migrateBlob(n) ==
    /\ pc = "running"
    /\ kind = "blob"
    /\ tasks[n].state = "running"
    /\ LET blob == Existing(source, n)
           t == tasks[n]
           ops == BlobCalls(config, blob)
       IN  \E probe \in {"none", "exists", "absent", "error"}, failAt \in 0..Len(ops),
              code \in ItemErrorCodes :
             /\ probe = "none" <=> ~config.skipExisting
             /\ probe = "exists" => Has(store, n)
             /\ probe = "absent" => ~Has(store, n)
             \* an outcome is named once: no failure, no failing call and no code
             /\ probe = "exists" => failAt = 0
             /\ failAt = 0 => code = 404
             /\ IF probe = "exists"
                THEN /\ stats' = Increment(stats, "skipped")
                     /\ last' = ItemDone("blob", blob, t.attempts, t.delays, t.codes, TRUE)
                     /\ AfterBlob([tasks EXCEPT ![n] = Ended("skipped")])
                     /\ calls' = calls \cup {<<"getProperties", n>>}
                     /\ store' = store
                ELSE /\ calls' = calls
                          \cup (IF probe # "none" THEN {<<"getProperties", n>>} ELSE {})
                          \cup {<<ops[j], n>> :
                                  j \in 1..(IF failAt = 0 THEN Len(ops) ELSE failAt)}
                     \* the copy leaves the blob in the destination
                     /\ store' = IF failAt = 1 THEN store ELSE Others(store, n) \cup {blob}
                     /\ IF failAt = 0
                        THEN /\ stats' = Increment(stats, "migrated")
                             /\ last' = ItemDone("blob", blob, t.attempts + 1, t.delays,
                                                 t.codes, TRUE)
                             /\ AfterBlob([tasks EXCEPT ![n] = Ended("migrated")])
                        ELSE BlobFailed(blob, Probed(t, probe), code)
    /\ UNCHANGED <<inputVars, runVars, syncVars, pageVars, batches, idx, containerStats, batchStats>>

BlobStep == \E n \in NameSet(source) : _migrateBlob(n)

\* migrateContainer up to its first item: the listing and the batches
ContainerStart ==
    /\ pc = "start"
    /\ kind \in {"document", "blob"}
    /\ LET items == Listing(source)
           bs == _createBatches(items, config.batchSize)
           ts == [n \in NameSet(source) |-> NewTask]
       IN  IF kind = "blob"
           THEN /\ batches' = bs
                /\ tasks' = [n \in DOMAIN ts |->
                               IF Len(bs) > 0 /\ n \in Range(NamesOf(bs[1]))
                               THEN [ts[n] EXCEPT !.state = "running"] ELSE ts[n]]
                /\ stats' = [stats EXCEPT !.total = Len(items)]
                /\ pc' = IF Len(items) = 0 THEN "done" ELSE "running"
           \* the documents are read page by page, from an empty token
           ELSE /\ batches' = <<>>
                /\ tasks' = ts
                /\ stats' = stats
                /\ pc' = "reading"
    /\ UNCHANGED <<inputVars, runVars, syncVars, pageVars, store, idx, batch, containerStats,
                   batchStats, last, calls>>

MaxItems == 3
ItemNames == {AllNames[i] : i \in 1..MaxItems}
\* the items of the source container: the first n names, each with one metadata entry
ItemSources ==
    { {Res(AllNames[i], Undefined, {<<"tag", "x">>}) : i \in 1..n} : n \in 0..MaxItems }

ItemOptions ==
    [ batchSize : 1..2,
      maxConcurrency : {1},
      maxRetries : 0..MaxRetriesOpt,
      skipExisting : BOOLEAN,
      continueOnError : BOOLEAN,
      preserveMetadata : {TRUE},
      preserveDestinationQueues : {FALSE},
      preserveDestinationContainers : {FALSE} ]

\* the documents go through the DataMigrator constructor; the blobs through the migrate
\* command ("cli") or a config object as given ("direct")
ItemEntries == {<<"document", "direct">>, <<"blob", "cli">>, <<"blob", "direct">>}

ItemConfig(k, e, o) == IF k = "document" THEN DataMigrator(o) ELSE ConfigFor(e, o)

InitItems ==
    /\ \E ke \in ItemEntries, o \in ItemOptions :
         /\ kind = ke[1]
         /\ entry = ke[2]
         /\ options = o
         /\ config = ItemConfig(ke[1], ke[2], o)
    /\ source \in ItemSources
    /\ store \in SUBSET source
    /\ (~config.skipExisting => store = {})
    /\ pc = "start"
    /\ SyncIdle
    /\ BatchIdle

NextItems ==
    \/ ContainerStart
    \/ ReadPage
    \/ ReadFails
    \/ DocProbe
    \/ ExternalWrite
    \/ _createDocumentWithRetry
    \/ BlobStep

SpecItems == InitItems /\ [][NextItems]_vars

(***************************************************************************)
(* A container migrated again: migrateContainer on a destination that      *)
(* holds what an earlier run of the same migration, ended or interrupted,  *)
(* has migrated. No state of a run outlives it but the destination.        *)
(***************************************************************************)
InitRerun ==
    /\ entry = "direct"
    /\ options \in {o \in ItemOptions : o.maxRetries = 0 /\ o.continueOnError}
    /\ config = ItemConfig("blob", entry, options)
    /\ kind = "blob"
    /\ source \in ItemSources
    /\ previous \in SUBSET NameSet(source)
    /\ now = 0
    /\ store = {r \in source : r.name \in previous}
    /\ pc = "start"
    /\ SyncIdle
    /\ batches = <<>>
    /\ batch = 1
    /\ tasks = <<>>
    /\ stats = NoStats
    /\ containerStats = NoCounts
    /\ batchStats = NoCounts
    /\ written = {}
    /\ cursor = NoCursor
    /\ reads = <<>>
    /\ listings = <<>>

NextRerun ==
    \/ ContainerStart
    \/ BlobStep

SpecRerun == InitRerun /\ [][NextRerun]_vars

(***************************************************************************)
(* _createDocumentWithRetry on its own: one document, any status code.     *)
(***************************************************************************)
\* status codes around the limits of the classes that _isRetryableError tells apart
StatusCodes == {400, 404, 409, 429, 430, 499, 500, 503, 599, 600}
MaxCreateRetries == 2

InitCreate ==
    /\ entry = "direct"
    /\ options \in {o \in ItemOptions : o.batchSize = 1 /\ ~o.skipExisting
                                         /\ o.continueOnError /\ o.maxRetries = 0}
    /\ \E m \in 1..MaxCreateRetries : config = [DataMigrator(options) EXCEPT !.maxRetries = m]
    /\ kind = "document"
    /\ source = {Res("a", Undefined, {<<"tag", "x">>})}
    /\ store = {}
    /\ pc = "running"
    /\ SyncIdle
    /\ BatchIdle

\* one call of _createDocumentWithRetry with retryCount = retries: `codes` keeps the
\* codes it has retried on, `last` what the document ended with
CreateDocument ==
    /\ pc = "running"
    /\ kind = "document"
    /\ LET doc == CHOOSE r \in source : TRUE
       IN  \E code \in {0} \cup StatusCodes :
             /\ attempts' = attempts + 1
             /\ calls' = calls \cup {<<"create", doc.name>>}
             /\ IF code = 0
                THEN /\ store' = store \cup {doc}
                     /\ pc' = "done"
                     /\ last' = ItemDone("document", doc, attempts + 1, delays, codes, TRUE)
                     /\ UNCHANGED <<retries, delays, codes>>
                ELSE IF retries < config.maxRetries /\ _isRetryableError(code)
                THEN /\ retries' = retries + 1
                     /\ delays' = Append(delays, BackoffDelay(retries))
                     /\ codes' = codes \cup {code}
                     /\ UNCHANGED <<store, pc, last>>
                ELSE /\ pc' = "failed"
                     /\ last' = ItemDone("document", doc, attempts + 1, delays,
                                         codes \cup {code}, FALSE)
                     /\ UNCHANGED <<store, retries, delays, codes>>
    /\ UNCHANGED <<inputVars, runVars, batchVars, actions, comparison, compared, results,
                   idx>>

NextCreate == CreateDocument

SpecCreate == InitCreate /\ [][NextCreate]_vars

(***************************************************************************)
(* SchemaCreator.createDatabaseSchema: one database and its containers,    *)
(* call by call.                                                           *)
(***************************************************************************)
\* schema.name
SchemaName == "db"
\* the codes a call to the target may fail with: conflict, server error
SchemaErrorCodes == {409, 500}
NoOutcome == [warnings |-> {}, error |-> 0]
NoTarget == [database |-> FALSE, containers |-> {}]

\* the step a creation starts with: the existence test is made under overwrite only
FirstStep_Create(overwrite) == "create"
FirstStep(overwrite) == IF overwrite THEN "exists" ELSE "create"

\* the loop over schema.containers turns to the i-th container, or the run ends
NextContainer(i) ==
    /\ idx' = IF i > Cardinality(source) THEN idx ELSE i
    /\ pc' = IF i > Cardinality(source) THEN "done"
             ELSE "container-" \o FirstStep(config.overwrite)

\* the catch blocks of createDatabaseSchema and _createContainer: a conflict without
\* overwrite is a warning, anything else is thrown on
Caught(name, code) == code = 409 /\ ~config.overwrite
Warned(name) == [results EXCEPT !.warnings = @ \cup {name}]
Thrown(code) ==
    /\ pc' = "thrown"
    /\ results' = [results EXCEPT !.error = code]
    /\ idx' = idx

\* createDatabaseSchema up to its loop over the containers
createDatabaseSchema ==
    /\ kind = "schema"
    /\ \E code \in {0} \cup SchemaErrorCodes :
         /\ codes' = IF code = 0 THEN codes ELSE codes \cup {code}
         /\ CASE pc = "database-exists" ->
                   \* read() answers, with 404 for a database that is not there, or fails
                   /\ code # 409
                   /\ calls' = calls \cup {<<"read", SchemaName>>}
                   /\ store' = store
                   /\ IF code # 0 THEN Thrown(code)
                      ELSE /\ pc' = IF store.database THEN "database-delete"
                                    ELSE "database-create"
                           /\ UNCHANGED <<results, idx>>
              [] pc = "database-delete" ->
                   /\ calls' = calls \cup {<<"delete", SchemaName>>}
                   /\ IF code # 0 THEN store' = store /\ Thrown(code)
                      ELSE /\ store' = NoTarget
                           /\ pc' = "database-create"
                           /\ UNCHANGED <<results, idx>>
              [] pc = "database-create" ->
                   /\ calls' = calls \cup {<<"createIfNotExists", SchemaName>>}
                   \* a conflict tells of a database that has come to be there
                   /\ store' = IF code = 500 THEN store ELSE [store EXCEPT !.database = TRUE]
                   /\ IF code = 0 THEN results' = results /\ NextContainer(1)
                      ELSE IF Caught(SchemaName, code)
                      THEN results' = Warned(SchemaName) /\ NextContainer(1)
                      ELSE Thrown(code)
              [] OTHER -> FALSE
    /\ UNCHANGED <<inputVars, runVars, batchVars, actions, comparison, compared, retries,
                   attempts, delays, last>>

\* _createContainer for the container in hand
_createContainer ==
    /\ kind = "schema"
    /\ pc \in {"container-exists", "container-delete", "container-create",
               "container-scripts"}
    /\ LET name == Listing(source)[idx].name
       IN  \E code \in {0} \cup SchemaErrorCodes :
             /\ codes' = IF code = 0 THEN codes ELSE codes \cup {code}
             /\ CASE pc = "container-exists" ->
                       /\ code # 409
                       /\ calls' = calls \cup {<<"read", name>>}
                       /\ store' = store
                       /\ IF code # 0 THEN Thrown(code)
                          ELSE /\ pc' = IF name \in store.containers THEN "container-delete"
                                        ELSE "container-create"
                               /\ UNCHANGED <<results, idx>>
                  [] pc = "container-delete" ->
                       /\ calls' = calls \cup {<<"delete", name>>}
                       /\ IF code # 0 THEN store' = store /\ Thrown(code)
                          ELSE /\ store' = [store EXCEPT !.containers = @ \ {name}]
                               /\ pc' = "container-create"
                               /\ UNCHANGED <<results, idx>>
                  [] pc = "container-create" ->
                       /\ calls' = calls \cup {<<"createIfNotExists", name>>}
                       /\ store' = IF code = 500 THEN store
                                   ELSE [store EXCEPT !.containers = @ \cup {name}]
                       /\ IF code = 0
                          THEN /\ pc' = "container-scripts"
                               /\ UNCHANGED <<results, idx>>
                          ELSE IF Caught(name, code)
                          THEN results' = Warned(name) /\ NextContainer(idx + 1)
                          ELSE Thrown(code)
                  [] OTHER ->
                       \* the functions, procedures and triggers: each create warns
                       \* of a conflict itself and throws anything else
                       /\ calls' = calls \cup {<<"scripts", name>>}
                       /\ store' = store
                       /\ IF code = 500 THEN Thrown(code)
                          ELSE /\ results' = IF code = 409 THEN Warned(name) ELSE results
                               /\ NextContainer(idx + 1)
    /\ UNCHANGED <<inputVars, runVars, batchVars, actions, comparison, compared, retries,
                   attempts, delays, last>>

SchemaContainers == {"a", "b"}
\* what the target holds before the run: no database, or one with some containers
Targets == {NoTarget} \cup [database : {TRUE}, containers : SUBSET SchemaContainers]

InitSchema ==
    /\ entry = "direct"
    /\ options \in [overwrite : BOOLEAN]
    /\ config = options
    /\ kind = "schema"
    /\ \E names \in {{}, {"a"}, {"a", "b"}} :
         source = {Res(n, Undefined, NoMeta) : n \in names}
    /\ store \in Targets
    /\ pc = "database-" \o FirstStep(config.overwrite)
    /\ actions = NoActions
    /\ comparison = NoComparison
    /\ compared = FALSE
    /\ results = NoOutcome
    /\ idx = 1
    /\ retries = 0
    /\ attempts = 0
    /\ delays = <<>>
    /\ codes = {}
    /\ last = NoItem
    /\ calls = {}
    /\ batches = <<>>
    /\ batch = 1
    /\ tasks = <<>>
    /\ stats = NoStats
    /\ containerStats = NoCounts
    /\ batchStats = NoCounts
    /\ written = {}
    /\ cursor = NoCursor
    /\ reads = <<>>
    /\ listings = <<>>
    /\ previous = (IF store.database THEN {SchemaName} ELSE {}) \cup store.containers
    /\ now = 0

NextSchema ==
    \/ createDatabaseSchema
    \/ _createContainer

SpecSchema == InitSchema /\ [][NextSchema]_vars

(***************************************************************************)
(* BlobMigrator.migrateAllContainers and the report of StorageMigrator's   *)
(* migrate: the per-container results added up, one container a turn.      *)
(***************************************************************************)
MaxBlobs == 2
BlobNames == {AllNames[i] : i \in 1..MaxBlobs}
\* how _migrateBlob leaves a blob; skipped is met under skipExisting only
Fates == {"migrated", "skipped", "failed"}
NoAll == NoStats @@ [totalContainers |-> 0, migratedContainers |-> 0]

\* the results object migrateContainer returns for a listing of blobs, each blob
\* having met its fate
RECURSIVE ContainerResult(_, _, _, _)
ContainerResult(containerName, blobs, fate, acc) ==
    IF blobs = <<>> THEN acc
    ELSE LET n == Head(blobs).name
             counted == Increment(acc, fate[n])
         IN  ContainerResult(containerName, Tail(blobs), fate,
                 IF fate[n] = "failed"
                 THEN [counted EXCEPT !.errors =
                          Append(@, DocumentError(containerName \o "/" \o n))]
                 ELSE counted)

\* results of migrateAllContainers after a container has returned its result
AddResult_First(all, containerResult) ==
    [AddCounts(all, containerResult) EXCEPT
        !.migratedContainers = @ + 1,
        !.errors = IF @ = <<>> THEN containerResult.errors ELSE @]
AddResult(all, containerResult) ==
    [AddCounts(all, containerResult) EXCEPT
        !.migratedContainers = @ + 1,
        !.errors = @ \o containerResult.errors]

Containers == Listing(source)

\* one turn of the loop of migrateAllContainers
migrateAllContainers ==
    /\ kind = "containers"
    /\ pc = "containers"
    /\ idx <= Len(Containers)
    /\ LET name == Containers[idx].name
       IN  \/ \E names \in SUBSET BlobNames :
                \E fate \in [names -> {f \in Fates : f = "skipped" => config.skipExisting}] :
                  LET blobs == Listing({Res(n, Undefined, NoMeta) : n \in names})
                      containerResult ==
                          ContainerResult(name, blobs, fate,
                                          [NoStats EXCEPT !.total = Len(blobs)])
                  IN  /\ containerStats' = containerResult
                      /\ stats' = AddResult(stats, containerResult)
                      /\ tasks' = Append(tasks, [name |-> name, threw |-> FALSE,
                                                 result |-> containerResult])
                      /\ pc' = pc
           \/ \* createIfNotExists or the listing of the blobs fails: migrateContainer throws
              /\ stats' = [stats EXCEPT !.errors = Append(@, ContainerError(name))]
              /\ tasks' = Append(tasks, [name |-> name, threw |-> TRUE, result |-> NoStats])
              /\ pc' = IF config.continueOnError THEN pc ELSE "thrown"
              /\ containerStats' = containerStats
    /\ idx' = idx + 1
    /\ UNCHANGED <<inputVars, runVars, pageVars, syncVars, store, last, calls, batches,
                   batch, batchStats>>

\* StorageMigrator.migrate once migrateAllContainers has returned
MigrateReport ==
    /\ kind = "containers"
    /\ pc = "containers"
    /\ idx > Len(Containers)
    /\ results' = [ services |-> stats,
                    totalItems |-> 0 + stats.total,
                    migratedItems |-> 0 + stats.migrated,
                    skippedItems |-> 0 + stats.skipped,
                    failedItems |-> 0 + stats.failed,
                    errors |-> <<>> \o stats.errors,
                    success |-> (0 + stats.failed = 0) \/ config.continueOnError ]
    /\ pc' = "reported"
    /\ UNCHANGED <<inputVars, runVars, batchVars, itemVars, store, actions, comparison,
                   compared, last, calls>>

InitAll ==
    /\ entry = "direct"
    /\ options \in [continueOnError : BOOLEAN, skipExisting : BOOLEAN]
    /\ config = options
    /\ kind = "containers"
    /\ \E n \in 0..MaxNames : source = {Res(AllNames[i], Undefined, NoMeta) : i \in 1..n}
    /\ store = {}
    /\ pc = "containers"
    /\ actions = NoActions
    /\ comparison = NoComparison
    /\ compared = FALSE
    /\ results = NoResults
    /\ idx = 1
    /\ retries = 0
    /\ attempts = 0
    /\ delays = <<>>
    /\ codes = {}
    /\ last = NoItem
    /\ calls = {}
    /\ batches = <<>>
    /\ batch = 1
    /\ tasks = <<>>
    /\ stats = [NoAll EXCEPT !.totalContainers = Cardinality(source)]
    /\ containerStats = NoStats
    /\ batchStats = NoCounts
    /\ written = {}
    /\ cursor = NoCursor
    /\ reads = <<>>
    /\ listings = <<>>
    /\ previous = {}
    /\ now = 0

NextAll ==
    \/ migrateAllContainers
    \/ MigrateReport

SpecAll == InitAll /\ [][NextAll]_vars

(***************************************************************************)
(* HealthMonitor.ps1: the monitoring cycles of one process after another,  *)
(* on a clock of whole seconds.                                            *)
(***************************************************************************)
MaxTime == 6
\* settings.alertCooldown, settings.checkInterval and the repetition interval of the
\* scheduled task, in seconds
Cooldowns == {3}
Intervals == {1, 2}
\* a resource no alert has been recorded for: LastAlerts has no such key
NeverAlerted == Unset

\* ShouldAlert at the time it reads the clock
ShouldAlert(LastAlerts, resourceName, cooldown) ==
    IF LastAlerts[resourceName] # NeverAlerted
    THEN ~(now - LastAlerts[resourceName] < cooldown)
    ELSE TRUE

\* the script is started: the constructor of HealthMonitor, with an empty LastAlerts,
\* then StartMonitoring enters its first cycle
StartProcess ==
    /\ kind = "monitor"
    /\ pc = "stopped"
    /\ store' = [n \in NameSet(source) |-> NeverAlerted]
    /\ idx' = 1
    /\ pc' = "checking"
    /\ UNCHANGED <<inputVars, runVars, batchVars, syncVars, last, calls>>

\* CheckResource on the resource in hand within RunHealthCheck: the test answers, and
\* a failure that ShouldAlert lets through is shown and recorded
CheckResource ==
    /\ kind = "monitor"
    /\ pc = "checking"
    /\ idx <= Cardinality(source)
    /\ LET name == Listing(source)[idx].name
       IN  \E Success \in BOOLEAN, shown \in BOOLEAN :
             /\ last' = [last EXCEPT !.name = name, !.success = Success]
             /\ IF ~Success /\ ShouldAlert(store, name, config.alertCooldown)
                THEN \* ShowNotification: the balloon tip, a second of sleep, then
                     \* RecordAlert reads the clock again
                     /\ calls' = IF config.enableNotifications /\ shown
                                 THEN calls \cup {<<name, now>>} ELSE calls
                     /\ now' = IF config.enableNotifications /\ shown
                               THEN now + 1 ELSE now
                     /\ store' = [store EXCEPT ![name] = now']
                ELSE /\ shown
                     /\ UNCHANGED <<calls, now, store>>
    /\ now < MaxTime
    /\ idx' = idx + 1
    /\ UNCHANGED <<inputVars, listings, previous, batchVars, syncVars, pc>>

\* the end of a cycle of StartMonitoring: with -RunOnce the process ends, without it
\* the loop sleeps checkInterval seconds and checks again
EndCycle ==
    /\ kind = "monitor"
    /\ pc = "checking"
    /\ idx > Cardinality(source)
    /\ IF config.RunOnce
       THEN pc' = "exited" /\ UNCHANGED <<now, idx>>
       ELSE /\ now + config.checkInterval <= MaxTime
            /\ now' = now + config.checkInterval
            /\ idx' = 1
            /\ pc' = pc
    /\ UNCHANGED <<inputVars, listings, previous, batchVars, syncVars, store, last, calls>>

\* the scheduled task set up by setup-task-scheduler.ps1 starts the script again, with
\* -RunOnce, an interval after the last start
ScheduledStart ==
    /\ kind = "monitor"
    /\ pc = "exited"
    /\ config.RunOnce
    /\ \E IntervalSeconds \in Intervals :
         /\ now + IntervalSeconds <= MaxTime
         /\ now' = now + IntervalSeconds
    /\ pc' = "stopped"
    /\ UNCHANGED <<inputVars, listings, previous, batchVars, syncVars, store, idx, last,
                   calls>>

InitMonitor ==
    /\ entry = "direct"
    /\ options \in [alertCooldown : Cooldowns, checkInterval : Intervals,
                    enableNotifications : BOOLEAN, RunOnce : BOOLEAN]
    /\ config = options
    /\ kind = "monitor"
    /\ \E n \in 1..2 : source = {Res(AllNames[i], Undefined, NoMeta) : i \in 1..n}
    /\ store = [n \in NameSet(source) |-> NeverAlerted]
    /\ pc = "stopped"
    /\ SyncIdle
    /\ BatchIdle

NextMonitor ==
    \/ StartProcess
    \/ CheckResource
    \/ EndCycle
    \/ ScheduledStart

SpecMonitor == InitMonitor /\ [][NextMonitor]_vars

(***************************************************************************)
(* DataMigrator.migrateDatabase: the containers of a database one after    *)
(* another, each migrateContainer taken as one turn.                       *)
(***************************************************************************)
MaxDocs == 2
DocNames == {AllNames[i] : i \in 1..MaxDocs}
\* how the migration of a container ends once the target container was read
Endings == {"completed", "aborted", "rejected"}

\* the documents _migrateBatch went through before a container ended that way: with
\* continueOnError off the first failure is the last document gone through
Processed(ending, names, fate) ==
    LET failed == {n \in names : fate[n] = "failed"}
        docs == Listing({Res(n, Undefined, NoMeta) : n \in names})
    IN  /\ \A n \in names : fate[n] = "skipped" => config.skipExisting
        /\ IF ending = "rejected"
           THEN /\ ~config.continueOnError
                /\ docs # <<>>
                /\ failed = {docs[Len(docs)].name}
           ELSE config.continueOnError \/ failed = {}

\* the catch block of migrateContainer: the error is thrown on with continueOnError off
Rethrown(cfg) == IF cfg.continueOnError THEN "containers" ELSE "thrown"
\* a return that throws like the catch block
PlainReturn_Rethrown(cfg) == IF cfg.continueOnError THEN "containers" ELSE "thrown"
\* the plain return of migrateContainer: the loop of migrateDatabase goes on
PlainReturn(cfg) == "containers"

\* one turn of the loop of migrateDatabase: migrateContainer on the container in hand
migrateContainer ==
    /\ kind = "database"
    /\ pc = "containers"
    /\ idx <= Len(Containers)
    /\ LET name == Containers[idx].name
           turn == [name |-> name, before |-> stats]
       IN  \E code \in {0, 404, 500} :
             /\ code = 404 <=> (name \notin NameSet(store) /\ code # 500)
             /\ IF code = 404
                THEN \* the target container is not there: one error, and a plain return
                     /\ stats' = [stats EXCEPT !.errors = Append(@, ContainerError(name))]
                     /\ calls' = calls \cup {<<"read", name>>}
                     /\ tasks' = Append(tasks, turn @@ [ending |-> "missing"])
                     /\ pc' = PlainReturn(config)
                ELSE IF code = 500
                THEN \* the outer catch block
                     /\ stats' = [stats EXCEPT !.errors = Append(@, ContainerError(name))]
                     /\ calls' = calls \cup {<<"read", name>>}
                     /\ tasks' = Append(tasks, turn @@ [ending |-> "unread"])
                     /\ pc' = Rethrown(config)
                ELSE \E ending \in Endings, names \in SUBSET DocNames :
                       \E fate \in [names -> Fates] :
                         LET result == ContainerResult(name, Listing({Res(n, Undefined, NoMeta) :
                                                                        n \in names}),
                                                       fate, [NoStats EXCEPT !.total =
                                                                 Cardinality(names)])
                             errs == stats.errors \o result.errors
                         IN  /\ Processed(ending, names, fate)
                             /\ calls' = calls \cup {<<"read", name>>, <<"fetchNext", name>>}
                                   \cup {<<"create", name \o "/" \o n>> :
                                           n \in {m \in names : fate[m] # "skipped"}}
                             /\ tasks' = Append(tasks, turn @@ [ending |-> ending])
                             /\ IF ending = "completed"
                                THEN /\ stats' = [AddCounts(stats, result) EXCEPT
                                                     !.errors = errs]
                                     /\ pc' = PlainReturn(config)
                                ELSE \* the counts of the container are left behind
                                     /\ stats' = [stats EXCEPT !.errors =
                                                     Append(errs, ContainerError(name))]
                                     /\ pc' = Rethrown(config)
    /\ idx' = idx + 1
    /\ UNCHANGED <<inputVars, runVars, pageVars, syncVars, store, last, batches, batch,
                   containerStats, batchStats>>

\* migrateDatabase: the listing of the containers at its start, and its return
migrateDatabase ==
    /\ kind = "database"
    /\ \/ /\ pc = "start"
          /\ \E listed \in BOOLEAN :
               IF listed THEN pc' = "containers" /\ results' = results
               ELSE IF config.continueOnError
               THEN /\ pc' = "returned"
                    /\ results' = [success |-> FALSE, stats |-> stats, error |-> TRUE]
               ELSE pc' = "thrown" /\ results' = results
       \/ /\ pc = "containers"
          /\ idx > Len(Containers)
          /\ results' = [success |-> stats.failed = 0, stats |-> stats, error |-> FALSE]
          /\ pc' = "returned"
    /\ UNCHANGED <<inputVars, runVars, batchVars, itemVars, store, actions, comparison,
                   compared, last, calls>>

InitDatabase ==
    /\ entry = "direct"
    /\ options \in [continueOnError : BOOLEAN, skipExisting : BOOLEAN]
    /\ config = options
    /\ kind = "database"
    /\ \E n \in 0..MaxSyncNames : source = {Res(AllNames[i], Undefined, NoMeta) : i \in 1..n}
    /\ store \in SUBSET source
    /\ pc = "start"
    /\ SyncIdle
    /\ BatchIdle

NextDatabase ==
    \/ migrateDatabase
    \/ migrateContainer

SpecDatabase == InitDatabase /\ [][NextDatabase]_vars

(***************************************************************************)
(* QueueMigrator.copyQueueMessages: the messages of one queue, received in *)
(* batches, sent to the destination queue and deleted from the source.     *)
(* Here source is the set of messages the source queue holds at the start, *)
(* tasks the state of each of them (visible, received and hidden until its *)
(* visibility timeout, or deleted), store the messages of the destination  *)
(* queue, batch the response.receivedMessageItems in hand, reads the       *)
(* number of messages received so far and now the number of visibility     *)
(* timeouts that have run out.                                             *)
(***************************************************************************)
\* visibility timeouts that run out during a copy
MaxTimeouts == 1
\* the most messages one receiveMessages call may return
MaxReceive == 32
NoCopy == [totalMessages |-> 0, copiedMessages |-> 0, failedMessages |-> 0, errors |-> <<>>]
Visible == {m \in source : tasks[m] = "visible"}
\* the sequences of k different messages out of a set
Received(set, k) == {s \in [1..k -> set] : \A i, j \in 1..k : s[i] = s[j] => i = j}

\* the outer catch of the loop: a 404 ends the loop and the results are returned,
\* anything else is rethrown
OuterCatch(code) == IF code = 404 THEN "returned" ELSE "thrown"

\* the entry of copyQueueMessages: getProperties gives the approximate count, which
\* is never below the number of messages in the queue
copyQueueMessages ==
    /\ pc = "start"
    /\ kind = "messages"
    /\ \/ /\ pc' = "thrown"
          /\ UNCHANGED results
       \/ \E count \in Cardinality(source)..MaxItems :
             /\ results' = [results EXCEPT !.totalMessages = count]
             /\ pc' = IF count = 0 THEN "returned" ELSE "receive"
    /\ UNCHANGED <<inputVars, store, actions, comparison, compared, idx, retries, attempts,
                   delays, codes, last, calls, batchVars, listings, previous, now>>

\* one pass of the while loop up to the for loop: receiveMessages
receiveMessages ==
    /\ pc = "receive"
    /\ \/ \E code \in {404, 500} :
             /\ pc' = OuterCatch(code)
             /\ UNCHANGED <<batch, tasks, reads, idx>>
       \/ /\ Visible = {}
          /\ batch' = <<>>
          /\ pc' = "returned"
          /\ UNCHANGED <<tasks, reads, idx>>
       \/ \E k \in 1..Min(Min(MaxReceive, config.batchSize), Cardinality(Visible)) :
          \E items \in Received(Visible, k) :
             /\ batch' = items
             /\ tasks' = [m \in source |-> IF m \in Range(items) THEN "hidden" ELSE tasks[m]]
             /\ reads' = reads + k
             /\ idx' = 1
             /\ pc' = "send"
    /\ UNCHANGED <<inputVars, store, actions, comparison, compared, results, retries,
                   attempts, delays, codes, last, calls, batches, stats, containerStats,
                   batchStats, cursor, listings, previous, now>>

\* where the for loop goes after the message in hand
AfterMessage == IF idx < Len(batch) THEN "send" ELSE "receive"

\* one turn of the for loop: sendMessage, deleteMessage and the counters
CopyMessage ==
    /\ pc = "send"
    /\ LET message == batch[idx]
           Failed == [results EXCEPT !.failedMessages = @ + 1,
                                     !.errors = Append(@, message)]
       IN  \/ /\ store' = store \cup {message}
              /\ tasks' = [tasks EXCEPT ![message] = "deleted"]
              /\ calls' = calls \cup {<<"send", message>>, <<"delete", message>>}
              /\ results' = [results EXCEPT !.copiedMessages = @ + 1]
              /\ pc' = AfterMessage
           \/ \E failing \in {"sendMessage", "deleteMessage"}, code \in {404, 500} :
                 /\ IF failing = "sendMessage"
                    THEN UNCHANGED <<store, calls>>
                    ELSE /\ store' = store \cup {message}
                         /\ calls' = calls \cup {<<"send", message>>}
                 /\ results' = Failed
                 /\ pc' = IF config.continueOnError THEN AfterMessage ELSE OuterCatch(code)
                 /\ UNCHANGED tasks
    /\ idx' = IF pc' = "send" THEN idx + 1 ELSE idx
    /\ UNCHANGED <<inputVars, actions, comparison, compared, retries, attempts, delays,
                   codes, last, batches, batch, stats, containerStats, batchStats, cursor,
                   reads, listings, previous, now>>

\* the visibility timeout of the messages received and not deleted runs out
VisibilityTimeout ==
    /\ pc = "receive"
    /\ now < MaxTimeouts
    /\ \E m \in source : tasks[m] = "hidden"
    /\ tasks' = [m \in source |-> IF tasks[m] = "hidden" THEN "visible" ELSE tasks[m]]
    /\ now' = now + 1
    /\ UNCHANGED <<inputVars, store, actions, comparison, compared, pc, execVars, batches,
                   batch, stats, containerStats, batchStats, cursor, reads, listings,
                   previous>>

InitMessages ==
    /\ entry = "direct"
    /\ options \in [batchSize : 1..2, continueOnError : BOOLEAN]
    /\ config = options
    /\ kind = "messages"
    /\ source \in SUBSET ItemNames
    /\ store = {}
    /\ tasks = [m \in source |-> "visible"]
    /\ batch = <<>>
    /\ reads = 0
    /\ results = NoCopy
    /\ pc = "start"
    /\ actions = NoActions /\ comparison = NoComparison /\ compared = FALSE
    /\ idx = 1 /\ retries = 0 /\ attempts = 0 /\ delays = <<>> /\ codes = {}
    /\ last = NoItem /\ calls = {}
    /\ batches = <<>> /\ stats = NoStats /\ containerStats = NoCounts
    /\ batchStats = NoCounts /\ written = {} /\ cursor = NoCursor
    /\ listings = <<>> /\ previous = {} /\ now = 0

NextMessages ==
    \/ copyQueueMessages
    \/ receiveMessages
    \/ CopyMessage
    \/ VisibilityTimeout

SpecMessages == InitMessages /\ [][NextMessages]_vars

(***************************************************************************)
(* BlobMigrator._createBatches turn by turn, on the batchSize that the     *)
(* StorageConfig constructor makes of the --batch-size option and of the   *)
(* BATCH_SIZE environment variable. Here options holds the option and the  *)
(* number parseInt reads from the variable (Unset when it is not set), idx *)
(* is the loop variable i and batches the array under construction.        *)
(***************************************************************************)
\* turns of the loop that are followed
MaxTurns == 4
\* parseInt(options.batchSize || process.env.BATCH_SIZE || '10'): an option that is
\* absent or 0 is falsy; the variable is a string, truthy whenever it is set
BatchSizeFrom(option, env) ==
    IF option # Unset /\ option # 0 THEN option
    ELSE IF env # Unset THEN env ELSE DefaultBatchSize

\* the blobs handed to _createBatches, in listing order
Items == NamesOf(Listing(source))

\* one turn of the for loop
BatchTurn ==
    /\ pc = "loop"
    /\ idx < Len(Items)
    /\ Len(batches) < MaxTurns
    /\ batches' = Append(batches, Slice(Items, idx, idx + config.batchSize))
    /\ idx' = idx + config.batchSize
    /\ UNCHANGED <<inputVars, runVars, pageVars, store, actions, comparison, compared, pc,
                   results, retries, attempts, delays, codes, last, calls, batch, tasks,
                   stats, containerStats, batchStats>>

\* the loop condition fails: return batches
BatchReturn ==
    /\ pc = "loop"
    /\ idx >= Len(Items)
    /\ pc' = "returned"
    /\ UNCHANGED <<inputVars, runVars, batchVars, store, actions, comparison, compared,
                   execVars>>

InitBatches ==
    /\ entry = "cli"
    /\ options \in [batchSize : {Unset, 0, 1, 2, -2}, BATCH_SIZE : {Unset, 0, 2}]
    /\ config = [batchSize |-> BatchSizeFrom(options.batchSize, options.BATCH_SIZE)]
    /\ kind = "blob"
    /\ source \in ItemSources
    /\ store = {}
    /\ pc = "loop"
    /\ idx = 0
    /\ actions = NoActions /\ comparison = NoComparison /\ compared = FALSE
    /\ results = NoResults /\ retries = 0 /\ attempts = 0 /\ delays = <<>> /\ codes = {}
    /\ last = NoItem /\ calls = {}
    /\ BatchIdle

NextBatches == BatchTurn \/ BatchReturn

SpecBatches == InitBatches /\ [][NextBatches]_vars

(***************************************************************************)
(* The entry points: what a run of migrate, copy, list, sync-queues or     *)
(* compare asks of the two accounts, one resource type after the other.    *)
(***************************************************************************)
\* the credentials of one account: which of the four options are given
Credentials(cs, name, key, sas) ==
    [connectionString |-> cs, accountName |-> name, accountKey |-> key, sasToken |-> sas]
NoCredentials == Credentials(FALSE, FALSE, FALSE, FALSE)
\* the destination the list command fills in before it constructs the config
DummyDestination == Credentials(TRUE, FALSE, FALSE, FALSE)

\* validate(): the test of one account's credentials
HasCredentials(c) == c.connectionString \/ (c.accountName /\ (c.accountKey \/ c.sasToken))
\* validate(): the errors it collects; it throws when there is one
validate(cfg) ==
    (IF ~HasCredentials(cfg.source) THEN {"source"} ELSE {})
    \cup (IF ~HasCredentials(cfg.destination) THEN {"destination"} ELSE {})
    \cup (IF ~cfg.includeBlobs /\ ~cfg.includeFiles /\ ~cfg.includeQueues
             /\ ~cfg.includeTables
          THEN {"services"} ELSE {})
\* the validate the list command puts in its place
validate_list(cfg) == IF ~HasCredentials(cfg.source) THEN {"source"} ELSE {}

\* the constructors of BlobMigrator and QueueMigrator: whether they assign a client
HasClient(c) == c.connectionString \/ c.accountKey \/ c.sasToken

Commands == {"migrate", "copy", "list", "sync-queues", "compare"}

\* the config each command constructs from its options
RunConfig(cmd, o) ==
    LET c == StorageConfig(o)
    IN  [ source |-> o.source,
          destination |-> IF cmd = "list" THEN DummyDestination ELSE o.destination,
          \* options.includeBlobs !== false: a command that hands none gets TRUE
          includeBlobs |-> IF cmd \in {"copy", "sync-queues"} THEN TRUE ELSE o.includeBlobs,
          includeQueues |-> IF cmd = "sync-queues" THEN TRUE
                            ELSE IF cmd = "copy" THEN FALSE ELSE o.includeQueues,
          includeFiles |-> IF cmd \in {"copy", "sync-queues"} THEN FALSE ELSE o.includeFiles,
          includeTables |-> IF cmd \in {"copy", "sync-queues"} THEN FALSE
                            ELSE o.includeTables,
          batchSize |-> c.batchSize,
          maxConcurrency |-> c.maxConcurrency,
          maxRetries |-> c.maxRetries,
          skipExisting |-> c.skipExisting,
          continueOnError |-> c.continueOnError,
          preserveMetadata |-> c.preserveMetadata,
          preserveDestinationQueues |-> c.preserveDestinationQueues,
          preserveDestinationContainers |-> c.preserveDestinationContainers ]

\* the resource types a run goes through, in its order
Types(cmd, cfg) ==
    CASE cmd = "sync-queues" -> <<"queue">>
      [] cmd \in {"copy", "list"} -> IF cfg.includeBlobs THEN <<"container">> ELSE <<>>
      [] OTHER -> (IF cfg.includeBlobs THEN <<"container">> ELSE <<>>)
                  \o (IF cfg.includeQueues THEN <<"queue">> ELSE <<>>)

\* whether the run of a type reads the source / the destination listing
ListsSource(cmd, k) == cmd # "copy"
ListsDestination(cmd, k) ==
    \/ cmd = "compare"
    \/ cmd \in {"migrate", "sync-queues"} /\ k = "queue"

NoReport == [services |-> {}, error |-> "none"]
NoPlans == [container |-> NoActions, queue |-> NoActions]
NoComparisons == [container |-> NoComparison, queue |-> NoComparison]

\* what a run of a command leaves alone
commandVars == <<entry, options, config, source, written, previous, now>>

\* the error leaves the method: its results object is lost
Throw(e) ==
    /\ pc' = "thrown"
    /\ results' = [services |-> {}, error |-> e]
    /\ kind' = kind

\* the run turns to the i-th of its types, or ends after the last
Begin(i, res) ==
    LET types == Types(entry, config)
    IN  IF i > Len(types)
        THEN /\ pc' = "done"
             /\ kind' = kind
             /\ results' = res
        ELSE /\ kind' = types[i]
             /\ pc' = IF ListsSource(entry, types[i]) THEN "source" ELSE "reconcile"
             /\ results' = res

TypeIndex == CHOOSE i \in 1..Len(Types(entry, config)) : Types(entry, config)[i] = kind

\* the entry of the run: config.validate() where the method calls it
Enter ==
    /\ pc = "start"
    /\ LET errors == CASE entry \in {"migrate", "copy"} -> validate(config)
                       [] entry = "list" -> validate_list(config)
                       [] OTHER -> {}
       IN  IF errors # {} THEN Throw("validation")
           ELSE IF entry = "copy" /\ ~config.includeBlobs THEN Throw("disabled")
           ELSE Begin(1, results)
    /\ UNCHANGED <<commandVars, batchVars, store, actions, comparison, compared, itemVars,
                   last, calls, listings>>

Listed(account, k, issued, ok, entries) ==
    [account |-> account, type |-> k, issued |-> issued, ok |-> ok, entries |-> entries]

\* listContainers / listSourceQueues: without a client the loop throws before any
\* request leaves, and a request on incomplete credentials cannot succeed
ListSource ==
    /\ pc = "source"
    /\ \E ok \in BOOLEAN :
         /\ ok => HasClient(config.source) /\ HasCredentials(config.source)
         /\ listings' = Append(listings,
                               Listed("source", kind, HasClient(config.source), ok,
                                      IF ok THEN source[kind] ELSE {}))
         /\ IF ~ok THEN Throw("enumeration")
            ELSE /\ pc' = IF ListsDestination(entry, kind) THEN "destination"
                          ELSE "reconcile"
                 /\ UNCHANGED <<kind, results>>
    /\ UNCHANGED <<commandVars, batchVars, store, actions, comparison, compared, itemVars,
                   last, calls>>

\* the first n entries of a listing
Prefix(account, n) == Range(SubSeq(Listing(account), 1, n))

\* listDestinationQueues, and the loop of compareBlobContainers over the destination:
\* the comparer catches the failure and goes on with what it holds
ListDestination ==
    /\ pc = "destination"
    /\ \E ok \in BOOLEAN, n \in 0..Cardinality(store[kind]) :
         /\ ok => HasClient(config.destination) /\ HasCredentials(config.destination)
         /\ ok => n = Cardinality(store[kind])
         /\ ~ok => \/ n = 0
                   \/ /\ entry = "compare" /\ kind = "container"
                      /\ HasClient(config.destination)
                      /\ n < Cardinality(store[kind])
         /\ listings' = Append(listings,
                               Listed("destination", kind, HasClient(config.destination),
                                      ok, Prefix(store[kind], n)))
         /\ IF ok \/ entry = "compare"
            THEN /\ pc' = "reconcile"
                 /\ UNCHANGED <<kind, results>>
            ELSE Throw("enumeration")
    /\ UNCHANGED <<commandVars, batchVars, store, actions, comparison, compared, itemVars,
                   last, calls>>

\* the destination after every action of a pass has succeeded
RECURSIVE ApplyActions(_, _, _, _, _, _)
ApplyActions(st, k, cfg, pass, acts, i) ==
    IF i > Len(acts) THEN st
    ELSE LET ops == CallsFor(k, cfg, pass, acts[i])
         IN  ApplyActions(ApplyCalls(st, pass, acts[i], ops, Len(ops)),
                          k, cfg, pass, acts, i + 1)
Passes(k, cfg) ==
    IF PreserveFlag(k, cfg) THEN {"create", "update"} ELSE {"create", "update", "delete"}
ApplyPlan(st, k, cfg, plan) ==
    LET created == ApplyActions(st, k, cfg, "create", plan.create, 1)
        updated == ApplyActions(created, k, cfg, "update", plan.update, 1)
    IN  IF PreserveFlag(k, cfg) THEN updated
        ELSE ApplyActions(updated, k, cfg, "delete", plan.delete, 1)
PlanCalls(k, cfg, plan) ==
    UNION { UNION { {<<op, plan[p][i].name>> : op \in Range(CallsFor(k, cfg, p, plan[p][i]))} :
                      i \in 1..Len(plan[p]) } : p \in Passes(k, cfg) }

\* migrateContainer on the account: createIfNotExists, then the metadata and the
\* access level of the source container where it has them
MigratedContainer(st, s) ==
    LET d == IF Has(st, s.name) THEN Existing(st, s.name)
             ELSE Res(s.name, Undefined, NoMeta)
    IN  Res(s.name,
            IF s.publicAccess # Undefined /\ s.publicAccess # "none"
            THEN s.publicAccess ELSE d.publicAccess,
            IF s.metadata # NoMeta THEN s.metadata ELSE d.metadata)
MigratedContainers(st, src) ==
    {MigratedContainer(st, s) : s \in src} \cup {r \in st : r.name \notin NameSet(src)}

\* the last listing of the destination of the type in hand
DestinationListed ==
    LET i == CHOOSE j \in 1..Len(listings) :
               /\ listings[j].account = "destination"
               /\ listings[j].type = kind
    IN  listings[i].entries

\* the work of the run on the type in hand once it holds its listings, every call
\* to the destination succeeding
Reconcile ==
    /\ pc = "reconcile"
    /\ CASE entry = "compare" ->
              /\ comparison' = [comparison EXCEPT ![kind] =
                                  ComparisonOf(kind, config, source[kind],
                                               DestinationListed)]
              /\ UNCHANGED <<store, actions, calls>>
         [] entry = "list" ->
              UNCHANGED <<store, actions, comparison, calls>>
         [] kind = "queue" ->
              LET plan == PlanOf(kind, config, source[kind], DestinationListed)
              IN  /\ actions' = [actions EXCEPT ![kind] = plan]
                  /\ store' = [store EXCEPT ![kind] = ApplyPlan(@, kind, config, plan)]
                  /\ calls' = calls \cup PlanCalls(kind, config, plan)
                  /\ UNCHANGED comparison
         [] OTHER ->
              /\ store' = [store EXCEPT ![kind] = MigratedContainers(@, source[kind])]
              /\ calls' = calls \cup {<<"createIfNotExists", n>> :
                                        n \in NameSet(source[kind])}
              /\ UNCHANGED <<actions, comparison>>
    /\ Begin(TypeIndex + 1, [results EXCEPT !.services = @ \cup {kind}])
    /\ UNCHANGED <<commandVars, batchVars, compared, itemVars, last, listings>>

\* the credentials a caller may hand over: none, a connection string, a name with a
\* key or with a token, a name alone, a key alone
CredentialShapes ==
    { NoCredentials,
      Credentials(TRUE, FALSE, FALSE, FALSE),
      Credentials(FALSE, TRUE, TRUE, FALSE),
      Credentials(FALSE, TRUE, FALSE, TRUE),
      Credentials(FALSE, TRUE, FALSE, FALSE),
      Credentials(FALSE, FALSE, TRUE, FALSE) }

RunOptions ==
    [ source : CredentialShapes,
      destination : CredentialShapes,
      includeBlobs : BOOLEAN,
      includeQueues : BOOLEAN,
      includeFiles : BOOLEAN,
      includeTables : {FALSE},
      batchSize : {Unset},
      maxConcurrency : {Unset},
      maxRetries : {Unset},
      skipExisting : {FALSE},
      continueOnError : {TRUE},
      preserveMetadata : {TRUE},
      preserveDestinationQueues : {FALSE},
      preserveDestinationContainers : {FALSE} ]

\* the two accounts, by resource type
RunSources ==
    [ container : {{Res("a", "blob", NoMeta)}},
      queue : {{Res("a", Undefined, {<<"tag", "x">>})}} ]
RunDestinations ==
    [ container : {{}, {Res("a", Undefined, NoMeta), Res("b", Undefined, NoMeta)}},
      queue : {{}, {Res("a", Undefined, {<<"tag", "x">>})},
               {Res("b", Undefined, NoMeta)}} ]

InitRun ==
    /\ entry \in Commands
    /\ options \in RunOptions
    /\ config = RunConfig(entry, options)
    /\ kind = "none"
    /\ source \in RunSources
    /\ store \in RunDestinations
    /\ actions = NoPlans
    /\ comparison = NoComparisons
    /\ compared = FALSE
    /\ pc = "start"
    /\ results = NoReport
    /\ idx = 1
    /\ retries = 0
    /\ attempts = 0
    /\ delays = <<>>
    /\ codes = {}
    /\ last = NoItem
    /\ calls = {}
    /\ BatchIdle

NextRun ==
    \/ Enter
    \/ ListSource
    \/ ListDestination
    \/ Reconcile

SpecRun == InitRun /\ [][NextRun]_vars

(***************************************************************************)
(* Every executor: the action passes and the container migrations.         *)
(***************************************************************************)
Init == InitSync \/ InitItems
Next == NextSync \/ NextItems
Spec == Init /\ [][Next]_vars

(***************************************************************************)
(* Properties of the planners.                                             *)
(***************************************************************************)
SourceNames == NameSet(source)
DestinationNames == NameSet(store)
InSource(n) == CHOOSE r \in source : r.name = n
InDestination(n) == CHOOSE r \in store : r.name = n
SeqNames(list) == Range(NamesOf(list))

\* whether the two entries of name n differ, as the migrator of this kind reads
\* them: a queue by its metadata when preserveMetadata is on, a container by its
\* access level and, with preserveMetadata, by the destination having metadata
\* (the source listing carries none)
PlannerDiffers(n) ==
    IF kind = "queue"
    THEN config.preserveMetadata /\ InSource(n).metadata # InDestination(n).metadata
    ELSE \/ InSource(n).publicAccess # InDestination(n).publicAccess
         \/ config.preserveMetadata /\ InDestination(n).metadata # NoMeta

\* the same for the comparison report, which compares metadata always
ReportDiffers(n) ==
    IF kind = "queue"
    THEN InSource(n).metadata # InDestination(n).metadata
    ELSE \/ InSource(n).publicAccess # InDestination(n).publicAccess
         \/ InDestination(n).metadata # NoMeta

\* C1: plan completeness. Every source name is in exactly one of create (iff the
\* destination lacks it), update (in both, with a difference) or unchanged (in
\* both, no difference), and delete plus preserved is keys(D) \ keys(S); for the
\* plan of the migrator and for the plan of the comparison report.
PlanCompleteness ==
    /\ pc = "planned" =>
          /\ SeqNames(actions.create) = SourceNames \ DestinationNames
          /\ SeqNames(actions.update) =
                 {n \in SourceNames \cap DestinationNames : PlannerDiffers(n)}
          /\ SeqNames(actions.delete) = DestinationNames \ SourceNames
    /\ compared =>
          /\ Range(comparison.create) = SourceNames \ DestinationNames
          /\ Range(comparison.update) =
                 {n \in SourceNames \cap DestinationNames : ReportDiffers(n)}
          /\ Range(comparison.missingInSource) = DestinationNames \ SourceNames
          /\ Range(comparison.delete) \subseteq Range(comparison.missingInSource)

\* a plan and a report with something to create, to update and to delete
PlanCompletenessWitness ==
    /\ pc = "planned" /\ compared
    /\ actions.create # <<>> /\ actions.update # <<>> /\ actions.delete # <<>>
    /\ comparison.create # <<>> /\ comparison.update # <<>>
    /\ comparison.missingInSource # <<>>

\* C2: plan disjointness. No name is in two action lists of a plan, and no
\* name is twice in one list.
PlanDisjoint ==
    /\ pc = "planned" =>
          NoDup(NamesOf(actions.create) \o NamesOf(actions.update)
                    \o NamesOf(actions.delete))
    /\ compared =>
          NoDup(comparison.create \o comparison.update \o comparison.delete)

\* three non-empty action lists in the plan and in the report
PlanDisjointWitness ==
    /\ pc = "planned" /\ compared
    /\ Len(actions.create) + Len(actions.update) + Len(actions.delete) = MaxNames
    /\ actions.update # <<>> /\ actions.delete # <<>>
    /\ comparison.update # <<>> /\ comparison.delete # <<>>

\* The scenario S = {a: {tag: x}, b: {tag: y}}, D = {b: {tag: z}, c: {tag: w}}
\* (for containers the source listing has no metadata to show).
Scenario ==
    IF kind = "queue"
    THEN /\ source = {Res("a", Undefined, {<<"tag", "x">>}),
                      Res("b", Undefined, {<<"tag", "y">>})}
         /\ store = {Res("b", Undefined, {<<"tag", "x">>}),
                     Res("c", Undefined, {<<"tag", "y">>})}
    ELSE /\ source = {Res("a", Undefined, NoMeta), Res("b", Undefined, NoMeta)}
         /\ store = {Res("b", Undefined, {<<"tag", "x">>}),
                     Res("c", Undefined, {<<"tag", "x">>})}

DeleteCalls == {c \in calls : c[1] = "delete"}
AllSucceeded == pc = "done" /\ results.errors = <<>>
Replan == PlanOf(kind, config, source, store)

\* C3: when the sync-queues command is given --preserve-destination-queues, the run
\* issues no delete call against the destination, and at its end the skipped count
\* is the number of destination-only queues.
PreserveRequestedSkipsDeletes ==
    (kind = "queue" /\ entry = "cli" /\ options.preserveDestinationQueues)
        => /\ DeleteCalls = {}
           /\ pc = "done" => results.skipped = Len(actions.delete)

Retryable(code) == code = 429 \/ (code >= 500 /\ code < 600)
ItemKinds == {"document", "blob"}
TaskNames == DOMAIN tasks
\* an item of some executor has finished, with every retry spent or none allowed
Finished == last.pass # "none"
\* the error entries recorded for the item finished last
ErrorsOf(name) ==
    IF kind \in ItemKinds
    THEN {i \in 1..Len(stats.errors) :
            stats.errors[i].scope = "item" /\ stats.errors[i].name = name}
    ELSE {i \in 1..Len(results.errors) :
            results.errors[i].name = name /\ results.errors[i].action = last.pass}
NonDecreasing(d) == \A i \in 1..Len(d) : \A j \in i..Len(d) : d[i] <= d[j]
Doubling(d) == \A i \in 2..Len(d) : d[i] = 2 * d[i - 1]
\* the delay sequences the executors hold: of the items in hand and of the last one
DelaysInHand == {delays, last.delays} \cup {tasks[n].delays : n \in TaskNames}

\* C6: an item that failed with a retryable error on every attempt was attempted
\* exactly (configured maxRetries) + 1 times, with non-decreasing delays, and is
\* recorded as failed exactly once, for every configured maxRetries including 0.
RetryBound ==
    (Finished /\ ~last.success /\ last.attempts > 0 /\ \A c \in last.codes : Retryable(c))
        => /\ last.attempts = options.maxRetries + 1
           /\ NonDecreasing(last.delays)
           /\ Cardinality(ErrorsOf(last.name)) = 1

CodesInHand ==
    UNION ({codes} \cup {tasks[n].codes : n \in {m \in TaskNames : ~Settled(tasks[m])}})

FailedItems == {n \in TaskNames : tasks[n].state \in {"failed", "rejected"}}
Position(n) == CHOOSE i \in 1..Len(AllNames) : AllNames[i] = n

\* C9: with continueOnError on, a container migration in which exactly one item K
\* failed has attempted every item and has not thrown; its failed counter is 1 and
\* its errors hold exactly one entry, which names K.
OneFailureRecorded ==
    (kind \in ItemKinds /\ config.continueOnError) =>
        /\ pc # "thrown"
        /\ \A K \in TaskNames :
             (pc = "done" /\ FailedItems = {K}) =>
                /\ \A n \in TaskNames : Settled(tasks[n])
                /\ stats.failed = 1
                /\ Len(stats.errors) = 1
                /\ stats.errors[1] = [scope |-> "item", name |-> K]
OneFailureRecordedWitness ==
    /\ kind \in ItemKinds
    /\ config.continueOnError
    /\ pc = "done"
    /\ TaskNames = {"a", "b"}
    /\ FailedItems = {"a"}
    /\ tasks["b"].state = "migrated"
    /\ last.name = "b"
    /\ stats.migrated = 1

\* C10: with continueOnError off, the first item that fails ends the run with an
\* error: the run has thrown, and no item after the failed one has been attempted.
FirstFailureAborts ==
    ~config.continueOnError =>
        /\ (kind \in {"queue", "container"} /\ results.errors # <<>>) => pc = "thrown"
        /\ \A K \in FailedItems :
             /\ pc = "thrown"
             /\ \A n \in TaskNames : Position(n) > Position(K) => tasks[n].state = "pending"

(***************************************************************************)
(* Properties of skipExisting.                                             *)
(***************************************************************************)
WithState(st) == {n \in TaskNames : tasks[n].state = st}
TransferCalls(n) == {c \in calls : c[2] = n /\ c[1] \in {"create", "startCopyFromURL"}}

\* C11: with skipExisting on, an item whose probe reported that it exists has had no
\* create or copy call issued for it in the run, and is counted as skipped, not as
\* migrated or failed.
SkippedNeverTransferred ==
    (kind \in ItemKinds /\ config.skipExisting) =>
        /\ \A n \in WithState("skipped") : TransferCalls(n) = {}
        /\ (kind = "blob" \/ pc = "done") =>
              /\ stats.skipped = Cardinality(WithState("skipped"))
              /\ stats.migrated = Cardinality(WithState("migrated"))
              /\ stats.failed = Cardinality(WithState("failed") \cup WithState("rejected"))

\* C12: with skipExisting and continueOnError on, a document that another writer
\* created between the read that answered 404 and the create fails with the conflict
\* once: the run does not throw, the 409 is never retried, the document is recorded
\* as failed exactly once, and the run goes on to process every remaining document.
RaceTolerated ==
    (kind = "document" /\ config.skipExisting /\ config.continueOnError) =>
        /\ pc # "thrown"
        /\ \A n \in TaskNames : 409 \notin tasks[n].codes
        /\ \A n \in written :
             /\ tasks[n].state \in {"running", "failed"}
             /\ tasks[n].state = "failed" =>
                   Cardinality({i \in 1..Len(stats.errors) : stats.errors[i].name = n}) = 1
             /\ (last.name = n /\ 409 \in last.codes) =>
                   /\ ~last.success
                   /\ last.attempts = Len(last.delays) + 1
                   /\ \A c \in last.codes \ {409} : Retryable(c)
        /\ pc = "done" =>
              /\ \A n \in TaskNames : Settled(tasks[n])
              /\ stats.failed = Cardinality(WithState("failed"))
RaceToleratedWitness ==
    /\ kind = "document"
    /\ config.skipExisting
    /\ config.continueOnError
    /\ pc = "done"
    /\ written = {"a"}
    /\ TaskNames = {"a", "b"}
    /\ tasks["a"].state = "failed"
    /\ tasks["b"].state = "migrated"
    /\ stats.failed = 1
    /\ stats.migrated = 1

(***************************************************************************)
(* Properties of the order of the passes.                                  *)
(***************************************************************************)
PassRank(pass) == CASE pass = "create" -> 1 [] pass = "update" -> 2 [] OTHER -> 3
\* the actions of a pass that have reached their final outcome
Outcomes(pass) ==
    {results.queueActions[i].name :
        i \in {j \in 1..Len(results.queueActions) : results.queueActions[j].action = pass}}
\* some operation of the pass has been issued against the destination
Begun(pass) == \E c \in calls : c[2] \in SeqNames(actions[pass])

\* C13: in a synchronisation run every create action has reached its final outcome
\* before the first update action is issued, and every update action before the
\* first delete action; the outcomes are recorded in that order.
PassesInOrder ==
    kind \in {"queue", "container"} =>
        /\ Begun("update") => Outcomes("create") = SeqNames(actions.create)
        /\ Begun("delete") => /\ Outcomes("create") = SeqNames(actions.create)
                              /\ Outcomes("update") = SeqNames(actions.update)
        /\ \A i \in 1..Len(results.queueActions) : \A j \in i..Len(results.queueActions) :
             PassRank(results.queueActions[i].action)
                <= PassRank(results.queueActions[j].action)
PassesInOrderWitness ==
    /\ kind \in {"queue", "container"}
    /\ pc = "done"
    /\ Len(results.queueActions) = 2
    /\ results.queueActions[1].action = "create"
    /\ ~results.queueActions[1].success
    /\ results.queueActions[2].action = "delete"
    /\ last.attempts > 1

(***************************************************************************)
(* Properties of the batches of a blob migration.                          *)
(***************************************************************************)
\* the blob operations outstanding: _migrateBlob calls that have not returned
Outstanding == WithState("running")

\* C14: in the blob migration of a container no operation of batch i+1 is started
\* before every operation of batch i has ended (migrated, skipped or failed with its
\* retries spent), so at most batchSize blob operations are outstanding at a time.
BatchesInSequence ==
    kind = "blob" =>
        /\ Outstanding \subseteq BatchNames(batch)
        /\ \A b \in 1..Len(batches) : \A n \in BatchNames(b) :
             /\ b < batch => Settled(tasks[n])
             /\ b > batch => tasks[n].state = "pending"
        /\ Cardinality(Outstanding) <= config.batchSize
BatchesInSequenceWitness ==
    /\ kind = "blob"
    /\ config.batchSize = 2
    /\ batch = 2
    /\ tasks["a"].state = "failed"
    /\ tasks["b"].state = "skipped"
    /\ tasks["c"].state = "running"
    /\ tasks["c"].retries > 0

\* C15: during a storage migration the number of operations outstanding at a time
\* never exceeds the configured max-concurrency.
ConcurrencyBounded ==
    kind = "blob" => Cardinality(Outstanding) <= config.maxConcurrency

(***************************************************************************)
(* Properties of the paginated read of DataMigrator.migrateContainer.      *)
(***************************************************************************)
RECURSIVE Flatten(_)
Flatten(seqs) == IF seqs = <<>> THEN <<>> ELSE Head(seqs) \o Flatten(Tail(seqs))
PagesRead == [i \in 1..Len(reads) |-> reads[i].page]
NonEmpty(page) == page # <<>>

\* C16: the first read is made with no token and every later read with the token
\* the read before it returned; the documents of a page are all dealt with before
\* the next read; the reading stops exactly when a read returns no token, a page
\* without documents but with a token does not stop it; and the documents handed to
\* the batch executor are those the source returned, each once.
PagedRead ==
    kind = "document" =>
        /\ reads # <<>> => reads[1].given = NoCursor
        /\ \A i \in 2..Len(reads) :
             /\ reads[i - 1].returned # NoCursor
             /\ reads[i].given = reads[i - 1].returned
        /\ batches = SelectSeq(PagesRead, NonEmpty)
        /\ NoDup(NamesOf(Flatten(batches)))
        /\ pc = "reading" =>
              /\ reads # <<>> => reads[Len(reads)].returned # NoCursor
              /\ \A n \in SeqNames(Flatten(batches)) : Settled(tasks[n])
        /\ pc = "done" =>
              /\ reads[Len(reads)].returned = NoCursor
              /\ \A n \in SeqNames(Flatten(PagesRead)) : Settled(tasks[n])
PagedReadWitness ==
    /\ kind = "document"
    /\ pc = "done"
    /\ Len(reads) = 3
    /\ reads[1].page # <<>>
    /\ reads[2].page = <<>>
    /\ reads[3].page # <<>>
    /\ Len(Flatten(batches)) = 3


(***************************************************************************)
(* Properties of the entry points.                                         *)
(***************************************************************************)
\* the listings for which a request has left for an account
Requests == {i \in 1..Len(listings) : listings[i].issued}
RunEnded == pc \in {"done", "thrown"}

\* C17: in every entry point, a config that lacks the credentials of the source or of
\* the destination, or that selects no service type, makes the run fail with a
\* validation error before any listing or mutation call is issued to either account
FailFastValidation ==
    validate(config) # {} =>
        /\ Requests = {}
        /\ calls = {}
        /\ pc # "done"
        /\ pc = "thrown" => results.error = "validation"


\* a listing of resource type k that the run could not read
ListingFailed(k) == \E i \in 1..Len(listings) : listings[i].type = k /\ ~listings[i].ok
Sibling(k) == IF k = "container" THEN "queue" ELSE "container"

\* C18: in a run of migrate with blobs and queues both enabled that has ended, a
\* listing failure of one resource type aborts the reconciliation of that type only:
\* the other type, whose listings did not fail, is reconciled and reported
SiblingIsolation ==
    (entry = "migrate" /\ config.includeBlobs /\ config.includeQueues
       /\ validate(config) = {} /\ RunEnded) =>
        \A k \in {"container", "queue"} :
            (ListingFailed(k) /\ ~ListingFailed(Sibling(k))) =>
                Sibling(k) \in results.services


\* a listing of the destination of resource type k that the run could not read
DestinationUnread(k) ==
    \E i \in 1..Len(listings) :
        /\ listings[i].account = "destination"
        /\ listings[i].type = k
        /\ ~listings[i].ok

\* C19: when the destination of a resource type cannot be listed, the comparison or
\* reconciliation of that type is aborted with an error: no plan and no comparison
\* is computed for it against an empty or partial destination listing
UnreadDestinationAborts ==
    \A k \in {"container", "queue"} :
        DestinationUnread(k) =>
            /\ actions[k] = NoActions
            /\ comparison[k] = NoComparison
            /\ k \notin results.services
            /\ RunEnded => pc = "thrown" /\ results.error = "enumeration"


(***************************************************************************)
(* Properties of _compareMetadata.                                         *)
(***************************************************************************)
SourceMetadata == (CHOOSE s \in source : TRUE).metadata
DestinationMetadata == (CHOOSE d \in store : TRUE).metadata
\* the entries of the result that name key k
EntriesOn(k) == {i \in 1..Len(comparison) : comparison[i].key = k}
\* the one entry the diff owes key k, "none" when the two sides agree on it
Owed(k) ==
    IF k \in Keys(SourceMetadata) /\ k \notin Keys(DestinationMetadata)
    THEN "missing_in_destination"
    ELSE IF k \notin Keys(SourceMetadata) /\ k \in Keys(DestinationMetadata)
    THEN "extra_in_destination"
    ELSE IF k \in Keys(SourceMetadata)
            /\ Get(SourceMetadata, k) # Get(DestinationMetadata, k)
    THEN "value_difference"
    ELSE "none"

\* C20: for all metadata maps A of the source and B of the destination,
\* _compareMetadata reports exactly one entry for every key that is missing on one
\* side or differs in value, typed missing_in_destination, extra_in_destination or
\* value_difference accordingly, no entry for a key equal on both sides or on
\* neither, and an empty result exactly when A = B
SymmetricMetadataDiff ==
    compared =>
        /\ \A i \in 1..Len(comparison) :
               comparison[i].key \in Keys(SourceMetadata) \cup Keys(DestinationMetadata)
        /\ \A k \in MetaKeys :
               IF Owed(k) = "none" THEN EntriesOn(k) = {}
               ELSE /\ Cardinality(EntriesOn(k)) = 1
                    /\ \A i \in EntriesOn(k) : comparison[i].type = Owed(k)
        /\ (comparison = <<>>) <=> (SourceMetadata = DestinationMetadata)

\* a comparison that owes one entry of each of the three types
SymmetricMetadataDiffWitness ==
    /\ compared
    /\ {Owed(k) : k \in MetaKeys}
         = {"missing_in_destination", "extra_in_destination", "value_difference"}
    /\ Len(comparison) = 3


(***************************************************************************)
(* Properties of the statistics.                                           *)
(***************************************************************************)
\* the items that have ended in one of the given outcomes
EndedIn(outcomes) == {n \in TaskNames : tasks[n].state \in outcomes}
ErrorNames == {stats.errors[i].name : i \in 1..Len(stats.errors)}

\* C21: whatever the order in which the blob operations of a batch take their turns,
\* migratedBlobs, skippedBlobs and failedBlobs equal the number of blobs that ended
\* in each outcome, and the errors list holds exactly one entry per failed blob
NoLostUpdates ==
    (kind = "blob" /\ pc \in {"running", "done"}) =>
        /\ stats.migrated = Cardinality(EndedIn({"migrated"}))
        /\ stats.skipped = Cardinality(EndedIn({"skipped"}))
        /\ stats.failed = Cardinality(EndedIn({"failed", "rejected"}))
        /\ Len(stats.errors) = stats.failed
        /\ ErrorNames = EndedIn({"failed", "rejected"})

\* a batch of two blobs that ran together has completed, both blobs migrated and a
\* blob after them failed
NoLostUpdatesWitness ==
    /\ kind = "blob"
    /\ pc = "done"
    /\ config.batchSize = 2
    /\ TaskNames = {"a", "b", "c"}
    /\ tasks["a"].state = "migrated"
    /\ tasks["b"].state = "migrated"
    /\ tasks["c"].state = "failed"


(***************************************************************************)
(* Properties of the error classification.                                 *)
(***************************************************************************)
RetryableStatus(code) == code = 429 \/ code \in 500..599

\* C22: an error of items.create is taken as retryable exactly when its status code is
\* 429 or lies in 500..599: the codes retried on are all of that class, and a
\* document that failed with retries left failed on a code outside it, 404 and 409
\* included
ClassifiedByStatus ==
    /\ \A c \in codes : RetryableStatus(c)
    /\ (pc = "failed" /\ retries < config.maxRetries) =>
          /\ last.codes \ codes # {}
          /\ \A c \in last.codes \ codes : ~RetryableStatus(c)

\* a document retried on 599 has then failed, with a retry left, on 409 or on 600
ClassifiedByStatusWitness ==
    /\ pc = "failed"
    /\ retries < config.maxRetries
    /\ codes = {599}
    /\ last.codes \ codes \in {{409}, {600}}


(***************************************************************************)
(* Properties of a migration that is run again.                            *)
(***************************************************************************)
\* C23: when a migration is run again after an earlier run, ended or interrupted, the
\* items which that run has migrated are not copied again
CompletedNotCopiedAgain ==
    \A n \in previous : <<"startCopyFromURL", n>> \notin calls


(***************************************************************************)
(* Properties of the schema creation.                                      *)
(***************************************************************************)
Issued(op) == {c[2] : c \in {x \in calls : x[1] = op}}

\* C24: without overwrite, createDatabaseSchema issues no delete of a database or a
\* container, and a conflict (409) ends in a warning and never fails the run; with
\* overwrite, a database or container that was there is deleted before its create
\* call is issued
OverwritePolicy ==
    /\ ~config.overwrite =>
          /\ Issued("delete") = {}
          /\ 409 \in codes => results.warnings # {}
          /\ pc = "thrown" => results.error # 409
    /\ config.overwrite =>
          /\ \A n \in Issued("createIfNotExists") \cap previous :
                 n \in Issued("delete") \/ SchemaName \in Issued("delete")

\* a run with overwrite has ended on a database that had one of the two containers:
\* the database was deleted, then it and both containers were created
OverwritePolicyWitness ==
    /\ config.overwrite
    /\ pc = "done"
    /\ previous = {SchemaName, "a"}
    /\ Issued("delete") = {SchemaName}
    /\ Issued("createIfNotExists") = {SchemaName, "a", "b"}


(***************************************************************************)
(* The planner and the order of the enumerations.                          *)
(***************************************************************************)
\* the orders in which an enumeration may list the same resources
Orders(list) == {[i \in 1..Len(list) |-> list[p[i]]] : p \in Permutations(1..Len(list))}
\* the planner of a kind on two listings as they were enumerated
PlanOn(k, cfg, sourceList, destinationList) ==
    IF k = "queue"
    THEN _planQueueActions(cfg, NewMap(sourceList), NewMap(destinationList))
    ELSE _planContainerActions(cfg, NewMap(sourceList), NewMap(destinationList))
SourceListing == IF kind = "queue" THEN listQueues(source) ELSE listContainers(source)
DestinationListing ==
    IF kind = "queue" THEN listQueues(store) ELSE _listDestinationContainers(store)
ActionSets(plan) ==
    [create |-> Range(plan.create), update |-> Range(plan.update),
     delete |-> Range(plan.delete)]

\* C25: the plan in hand is the plan any further invocation on the same two snapshots
\* and configuration returns, and whatever the order in which the two enumerations
\* listed the resources, the planner returns the same create, update and delete sets
PlanDeterminism ==
    pc = "planned" =>
        /\ actions = PlanOf(kind, config, source, store)
        /\ \A s \in Orders(SourceListing), d \in Orders(DestinationListing) :
              ActionSets(PlanOn(kind, config, s, d)) = ActionSets(actions)

\* a plan with a creation and two deletions, which another order of the destination
\* listing returns in another order
PlanDeterminismWitness ==
    /\ pc = "planned"
    /\ actions.create # <<>>
    /\ Len(actions.delete) = 2
    /\ \E d \in Orders(DestinationListing) :
          PlanOn(kind, config, SourceListing, d).delete # actions.delete


(***************************************************************************)
(* Properties of the aggregation over the containers.                      *)
(***************************************************************************)
\* the containers that returned a result, in the order they were processed
Returned == SelectSeq(tasks, LAMBDA t : ~t.threw)
RECURSIVE SumOf(_, _)
SumOf(list, counter) ==
    IF list = <<>> THEN 0 ELSE Head(list).result[counter] + SumOf(Tail(list), counter)
\* the error lists of the containers processed, a container that failed as a whole
\* standing for one entry
RECURSIVE ErrorsIn(_)
ErrorsIn(list) ==
    IF list = <<>> THEN <<>>
    ELSE (IF Head(list).threw THEN <<ContainerError(Head(list).name)>>
          ELSE Head(list).result.errors) \o ErrorsIn(Tail(list))

AlertTimes(resourceName) == {c[2] : c \in {x \in calls : x[1] = resourceName}}

\* C27: two notifications for the same resource are never shown less than
\* alertCooldown seconds apart, whatever the sequence of monitoring cycles
AlertCooldownKept ==
    kind = "monitor" =>
        \A n \in NameSet(source) :
            \A t1 \in AlertTimes(n), t2 \in AlertTimes(n) :
                t1 < t2 => t2 - t1 >= config.alertCooldown


(***************************************************************************)
(* One outcome for every item.                                             *)
(***************************************************************************)
Outcome3(counts) == counts.migrated + counts.skipped + counts.failed

\* C28: with continueOnError on, at the end of the blob migration of a container every
\* blob has ended in exactly one of migrated, skipped and failed and
\* totalBlobs = migratedBlobs + skippedBlobs + failedBlobs; in a document batch every
\* document gone through has added one to exactly one of the three counters, so the
\* counts of every batch ended, of the container and of the run add up to their totals
OneOutcomePerItem ==
    (kind \in ItemKinds /\ config.continueOnError) =>
        /\ (kind = "blob" /\ pc = "done") =>
              /\ stats.total = Outcome3(stats)
              /\ EndedIn({"migrated", "skipped", "failed"}) = TaskNames
        /\ (kind = "document" /\ pc = "running") =>
              /\ Outcome3(batchStats) = idx - 1
              /\ \A i \in 1..Len(batches[batch]) :
                    i < idx <=> Settled(tasks[batches[batch][i].name])
        /\ kind = "document" =>
              /\ containerStats.total = Outcome3(containerStats)
              /\ stats.total = Outcome3(stats)
              /\ pc = "done" => stats.total = Cardinality(TaskNames)

\* a container of three blobs has ended with one blob migrated, one skipped and one
\* failed after a retry
OneOutcomePerItemWitness ==
    /\ kind = "blob"
    /\ config.continueOnError
    /\ pc = "done"
    /\ stats.migrated = 1 /\ stats.skipped = 1 /\ stats.failed = 1
    /\ \E n \in TaskNames : tasks[n].state = "failed" /\ last.name = n /\ last.attempts = 2


(***************************************************************************)
(* The global statistics after a read that failed.                         *)
(***************************************************************************)
\* the read of a page has failed and ended the migration of the container
ReadFailed == pc = "aborted" \/ (pc = "thrown" /\ EndedIn({"rejected"}) = {})

\* C29: when the read of a page fails after earlier pages were processed, the global
\* statistics count the documents of the pages processed: migratedDocuments is the
\* number of documents this run created in the target, and so for the total, the
\* skipped and the failed
StatsCountProcessedPages ==
    (kind = "document" /\ ReadFailed) =>
        /\ stats.migrated = Cardinality(EndedIn({"migrated"}))
        /\ stats.skipped = Cardinality(EndedIn({"skipped"}))
        /\ stats.failed = Cardinality(EndedIn({"failed"}))
        /\ stats.total = Cardinality(EndedIn({"migrated", "skipped", "failed"}))


(***************************************************************************)
(* The blobs this run has copied.                                          *)
(***************************************************************************)
\* the blobs a copy was started for in this run
CopyStarted == {n \in TaskNames : <<"startCopyFromURL", n>> \in calls}

\* C30: with skipExisting on, a blob is recorded as skipped only if the destination
\* held it before the run first attempted it: a blob whose copy this run has started
\* is never recorded as skipped, it ends as migrated or as failed, and skippedBlobs
\* counts no such blob
CopiedNeverSkipped ==
    (kind = "blob" /\ config.skipExisting) =>
        /\ \A n \in CopyStarted :
              Settled(tasks[n]) => tasks[n].state \in {"migrated", "failed", "rejected"}
        /\ stats.skipped = Cardinality(TaskNames \ (CopyStarted \cup WithState("running")
                                                   \cup WithState("pending")))


(***************************************************************************)
(* The existence probe and the transfer.                                   *)
(***************************************************************************)
\* C31: with skipExisting on, a create or copy is issued for an item only after its
\* probe answered not found (404): an item under way whose probes have failed with
\* other errors only has had no create or copy issued, for documents and for blobs
ProbeGatesTransfer ==
    (kind \in ItemKinds /\ config.skipExisting) =>
        \A n \in TaskNames :
            (~Settled(tasks[n]) /\ TransferCalls(n) # {}) => 404 \in tasks[n].probes


(***************************************************************************)
(* The verdict of the report.                                              *)
(***************************************************************************)
\* C32: the report of migrate says success exactly when no item failed: with one
\* failed item or more success is false, whatever continueOnError is
SuccessMeansNoFailure ==
    (kind = "containers" /\ pc = "reported") =>
        (results.success <=> results.failedItems = 0)


(***************************************************************************)
(* Properties of migrateDatabase.                                          *)
(***************************************************************************)
\* C33: migrateDatabase returns success = true only with an empty error list: an error
\* of a container (target container missing, a read that failed) or of a document
\* recorded in stats.errors makes success false
SuccessMeansNoErrors ==
    (kind = "database" /\ pc = "returned") =>
        (results.success => results.stats.errors = <<>>)


\* the statistics a turn of migrateDatabase has left
After(i) == IF i < Len(tasks) THEN tasks[i + 1].before ELSE stats
Counters(s) == [c \in {"total", "migrated", "skipped", "failed"} |-> s[c]]

\* C39: a container whose target container is missing (404 on the existence read) has
\* no page read and no create issued, adds exactly one error, which names the
\* container, leaves every document counter as it was, and does not stop the
\* migration, with continueOnError off as with it on
MissingTargetSkipped ==
    kind = "database" =>
        \A i \in 1..Len(tasks) :
            tasks[i].ending = "missing" =>
                LET name == tasks[i].name
                IN  /\ <<"read", name>> \in calls
                    /\ <<"fetchNext", name>> \notin calls
                    /\ \A n \in DocNames : <<"create", name \o "/" \o n>> \notin calls
                    /\ After(i).errors = Append(tasks[i].before.errors, ContainerError(name))
                    /\ Counters(After(i)) = Counters(tasks[i].before)
                    /\ i = Len(tasks) => pc \in {"containers", "returned"}

\* with continueOnError off the target of the first container was missing, and the
\* second container was migrated after it
MissingTargetSkippedWitness ==
    /\ kind = "database"
    /\ ~config.continueOnError
    /\ pc = "returned"
    /\ Len(tasks) = 2
    /\ tasks[1].ending = "missing"
    /\ tasks[2].ending = "completed"
    /\ stats.migrated = 2
    /\ Len(stats.errors) = 1


(***************************************************************************)
(* The counters of the report of a migration with queues.                  *)
(***************************************************************************)
\* C34: in the report of migrate with queues included the counters are consistent:
\* migratedItems + skippedItems + failedItems is at most totalItems, whatever queues
\* were created, updated, deleted, preserved or failed
ReportCountersConsistent ==
    (kind = "queue" /\ pc = "reported") =>
        stats.migrated + stats.skipped + stats.failed <= stats.total


(***************************************************************************)
(* The two metadata comparators.                                           *)
(***************************************************************************)
\* C35: with preserveMetadata on, _shouldUpdateQueue answers true for two metadata objects
\* exactly when _compareMetadata lists a difference between them: the queue is planned
\* for update iff the comparison is not empty
ComparatorsAgree ==
    (config.preserveMetadata /\ compared /\ pc = "planned") =>
        ((Len(actions.update) > 0) <=> (Len(comparison) > 0))

\* a queue planned for update whose destination only has a key more than the source
ComparatorsAgreeWitness ==
    /\ config.preserveMetadata /\ compared /\ pc = "planned"
    /\ Len(actions.update) > 0
    /\ \A i \in 1..Len(comparison) : comparison[i].type = "extra_in_destination"


(***************************************************************************)
(* The comparison report against the plan of synchronizeContainers.        *)
(***************************************************************************)
\* the names synchronizeContainers deletes: the delete pass runs on the planned
\* deletions unless preserveDestinationContainers is set
ExecutedDeletions ==
    IF config.preserveDestinationContainers THEN {} ELSE SeqNames(actions.delete)

\* C36: for the same listings and configuration, the create, update and delete names
\* recommended by _compareContainerLists are the names of the actions that
\* synchronizeContainers plans and executes, whatever the preserve-destination and
\* preserveMetadata flags
ReportMatchesExecution ==
    (kind = "container" /\ pc = "planned" /\ compared) =>
        /\ Range(comparison.create) = SeqNames(actions.create)
        /\ Range(comparison.update) = SeqNames(actions.update)
        /\ Range(comparison.delete) = ExecutedDeletions


(***************************************************************************)
(* Properties of copyQueueMessages.                                        *)
(***************************************************************************)
\* C37: copyQueueMessages loses no message and accounts for each one it received: a
\* message is deleted from the source only once the destination has it, a message
\* whose send failed stays in the source, and the results returned count every
\* received message once, as copied or as failed
MessagesAccounted ==
    /\ \A m \in source : tasks[m] = "deleted" => m \in store
    /\ (kind = "messages" /\ pc = "returned") =>
          results.copiedMessages + results.failedMessages = reads


(***************************************************************************)
(* Properties of _createBatches.                                           *)
(***************************************************************************)
\* the batches returned partition the items: concatenated they are the items in
\* order, none is empty, all but the last have batchSize items and the last at most
Partitioned ==
    /\ Flatten(batches) = Items
    /\ \A b \in 1..Len(batches) :
          /\ Len(batches[b]) >= 1
          /\ Len(batches[b]) <= config.batchSize
          /\ b < Len(batches) => Len(batches[b]) = config.batchSize

\* C38: _createBatches terminates for every batchSize the configuration can produce:
\* every turn of its loop takes i closer to items.length
BatchesTerminate == [][BatchTurn => idx' > idx]_vars
====
